---- MODULE Spec2Model ----
(***************************************************************************)
(* A model of the command package: the lifecycle wrappers (reader, writer, *)
(* stream) over one execution unit, and the pipeline copier Copy.          *)
(*                                                                         *)
(* Spec      one wrapper, built by NewReader / NewWriter / NewStream over  *)
(*           a machine, used by concurrent callers.  Every handler is cut  *)
(*           where the code releases its mutex, so the interleavings of    *)
(*           the model are those of the code.                              *)
(* SpecCopy  one call of Copy over a chain of endpoints, one task per      *)
(*           flow edge.  Every Read, Write and Close of an endpoint        *)
(*           returns: a Write that blocks forever is not modelled.         *)
(* SpecCopyFair  SpecCopy with weak fairness of the tasks, for liveness.   *)
(* SpecSh    one Router (Shell) with its routes, used by concurrent        *)
(*           callers of Command, OS, Arch and FS.                          *)
(* SpecProbe one probeRead down a stack of Routers to the base executor.   *)
(* SpecProbeFair  SpecProbe with weak fairness of the probe, for liveness. *)
(* SpecRoute a program building Routers with Shell, Handle and Unshell.    *)
(* SpecOS    one call of OS or Arch on a stack of Routers.                 *)
(* SpecNotFound  NotFound applied to the errors a command can return.      *)
(* SpecMock  the call tracking of a mock machine under a pipeline.         *)
(* SpecEnv   contexts derived with WithEnv, WithoutEnv, UnsetEnv; Env.     *)
(* SpecTrace commands run through Exec, Read, Do and others; Trace.        *)
(* SpecCopyError  the message of the error Copy returns, by copyError.     *)
(* SpecQueue the readers queued by Return on a mock machine, as invoked.   *)
(* SpecCopyPipe  one call of Copy whose interior stages hold a bounded     *)
(*           number of chunks: a Write into a full stage blocks.           *)
(* SpecCopyPipeFair  SpecCopyPipe with weak fairness of the tasks.         *)
(***************************************************************************)
EXTENDS Integers, Sequences, FiniteSets, TLC

\* ------------------------------------------------------------------ bounds
NCallers  == 2      \* concurrent callers of the one wrapper
MaxCalls  == 3      \* calls made on the wrapper, over all callers
MaxChunks == 1      \* chunks a ReadFrom source can hold
MaxMid    == 1      \* interior stages of a Copy
MaxData   == 1      \* chunks the source of a Copy can hold
MaxLayers == 2      \* Routers nested above the base executor of a probe
MaxBuild  == 3      \* calls of Shell and Handle a program makes
MaxChain  == 3      \* errors in the chain given to NotFound
MaxCmds   == 2      \* commands of a mock machine used by a pipeline
MaxCtx    == 3      \* contexts a program derives from the background context
MaxUnits  == 2      \* commands a program creates while its trace is observed
MaxStages == 2      \* interior stages of a Copy whose error is rendered
MaxReturn == 3      \* readers queued by Return for one argument pattern
MaxInvoke == 3      \* invocations of the mocked command

Callers == 1..NCallers

\* ------------------------------------------------------------------ errors
Nil         == "nil"
ErrClosed   == "ErrClosed"      \* io.go: ErrClosed
ErrReadOnly == "ErrReadOnly"    \* io.go: ErrReadOnly
ErrExec     == "ErrExec"        \* the unit's read fails: the command's failure
ErrWrite    == "ErrWrite"       \* the unit's write fails
ErrCloseIn  == "ErrCloseIn"     \* the unit's close fails
ErrSrc      == "ErrSrc"         \* the source of a ReadFrom fails
EOF         == "EOF"            \* io.EOF

VARIABLES
    mach,       \* the machine: [kind, probed, coreOS]
    executed,   \* commands that have run on the core machine: "probe", "cmd"
    wrap,       \* the wrapper: [kind, started, closed, cancelled, inits]
    unit,       \* the execution unit: [writable, closable, reads, writes, closes]
    drain,      \* the writer's background task: none, spawned, reading, done
    readCh,     \* the writer's completion channel w.read (buffer of one)
    sent,       \* values ever sent on w.read
    pc,         \* where each caller stands in the handler it runs
    call,       \* the call each caller runs or ran last
    reg,        \* the locals (n, err) of the handler each caller runs
    ret,        \* what that call returned
    calls,      \* calls made on the wrapper so far
    firstOp,    \* history: the first operation performed on the wrapper
    used,       \* history: a Read, Write or ReadFrom has been called on it
    closeRet,   \* history: a Close of the wrapper has returned
    drainVal,   \* history: the outcome the drain task observed
    cp,         \* the state of one Copy call (SpecCopy)
    sh,         \* a Router and the goroutines that use it (SpecSh)
    pr,         \* one probeRead over a chain of Routers (SpecProbe)
    rtr,        \* machines built by Shell and Handle, and dispatches (SpecRoute)
    nfd,        \* an error chain given to NotFound (SpecNotFound)
    mck,        \* a mock machine and the commands recording on it (SpecMock)
    env,        \* contexts and their environment maps (SpecEnv)
    trc,        \* the helpers Exec, Read, Do and the Trace sink (SpecTrace)
    osd,        \* one call of OS or Arch on a stack of Routers (SpecOS)
    cer,        \* the results of a Copy and their rendering (SpecCopyError)
    mq          \* a mock machine's queues of responses (SpecQueue)

vars  == <<mach, executed, wrap, unit, drain, readCh, sent, pc, call, reg, ret, calls, firstOp, used, closeRet, drainVal, cp, sh, pr, rtr, nfd, mck, env, trc, osd, cer, mq>>

NoCall == [op |-> "none", after |-> FALSE, afterRf |-> FALSE, live |-> FALSE]
NoReg  == [n |-> 0, err |-> Nil]
NoRet  == [done |-> FALSE, n |-> 0, err |-> Nil, drained |-> FALSE]

\* cancels, closeIns and recvs count what the Close calls of the wrapper have
\* done: cancelled the derived scope, closed the unit's input, received from
\* the completion channel.
NoWrap == [kind |-> "none", started |-> FALSE, closed |-> FALSE,
           cancelled |-> FALSE, inits |-> 0,
           cancels |-> 0, closeIns |-> 0, recvs |-> 0]
NoUnit == [writable |-> FALSE, closable |-> FALSE,
           reads |-> FALSE, writes |-> FALSE, closes |-> 0]

\* The Copy part of the state is idle under Spec.
CopyIdle == [phase |-> "idle"]

\* So are the Router and the probe.
ShIdle    == [phase |-> "idle"]
ProbeIdle == [phase |-> "idle"]
RouteIdle == [phase |-> "idle"]
NfIdle    == [phase |-> "idle"]
MockIdle  == [phase |-> "idle"]
EnvIdle   == [phase |-> "idle"]
TraceIdle == [phase |-> "idle"]
OsIdle    == [phase |-> "idle"]
CerIdle   == [phase |-> "idle"]
QueueIdle == [phase |-> "idle"]

\* The parts of the state a specification does not use stay idle.
RestIdle ==
    /\ rtr = RouteIdle
    /\ nfd = NfIdle
    /\ mck = MockIdle
    /\ env = EnvIdle
    /\ trc = TraceIdle
    /\ osd = OsIdle
    /\ cer = CerIdle
    /\ mq = QueueIdle

\* ---------------------------------------------------------------- machine
\* Sh.init: the once-guarded probe of the core's OS and architecture.  The
\* probes run commands on the core unless the core answers OS and Arch itself.
ShInit(m) ==
    IF m.kind = "sh" /\ ~m.probed
    THEN [m EXCEPT !.probed = TRUE]
    ELSE m

ProbeCommands(m) ==
    IF m.kind = "sh" /\ ~m.probed /\ ~m.coreOS THEN {"probe"} ELSE {}

\* m.Command(ctx, args...): Sh.Command runs init and then routes; the Buffer
\* it returns has not started.
MachineCommand(writable, closable) ==
    /\ mach' = ShInit(mach)
    /\ executed' = executed \cup ProbeCommands(mach)
    /\ unit' = [NoUnit EXCEPT !.writable = writable, !.closable = closable]

\* The first Read or Write of the unit starts the command.
UnitStart == executed' = executed \cup {"cmd"}

\* ----------------------------------------------------------- construction
NewReader ==
    /\ wrap.kind = "none"
    /\ \E w \in BOOLEAN, c \in BOOLEAN :
          /\ w => c
          /\ MachineCommand(w, c)
    /\ wrap' = [NoWrap EXCEPT !.kind = "reader"]
    /\ UNCHANGED <<drain, readCh, sent, pc, call, reg, ret, calls, firstOp, used, closeRet, drainVal, cp, sh, pr, rtr, nfd, mck, env, trc, osd, cer, mq>>

\* A NewWriter that starts the drain task at construction.
NewWriterEager ==
    /\ wrap.kind = "none"
    /\ \E w \in BOOLEAN, c \in BOOLEAN :
          /\ w => c
          /\ MachineCommand(w, c)
    /\ wrap' = [NoWrap EXCEPT !.kind = "writer", !.started = TRUE, !.inits = 1]
    /\ drain' = "spawned"
    /\ UNCHANGED <<readCh, sent, pc, call, reg, ret, calls, firstOp, used, closeRet, drainVal, cp, sh, pr, rtr, nfd, mck, env, trc, osd, cer, mq>>

\* A unit without write capability is wrapped in readOnlyBuffer, which has
\* Read and Write only.
NewWriter ==
    /\ wrap.kind = "none"
    /\ \E w \in BOOLEAN, c \in BOOLEAN :
          /\ w => c
          /\ MachineCommand(w, c)
    /\ wrap' = [NoWrap EXCEPT !.kind = "writer"]
    /\ UNCHANGED <<drain, readCh, sent, pc, call, reg, ret, calls, firstOp, used, closeRet, drainVal, cp, sh, pr, rtr, nfd, mck, env, trc, osd, cer, mq>>

NewStream ==
    /\ wrap.kind = "none"
    /\ \E w \in BOOLEAN, c \in BOOLEAN :
          /\ w => c
          /\ MachineCommand(w, c)
    /\ wrap' = [NoWrap EXCEPT !.kind = "stream"]
    /\ UNCHANGED <<drain, readCh, sent, pc, call, reg, ret, calls, firstOp, used, closeRet, drainVal, cp, sh, pr, rtr, nfd, mck, env, trc, osd, cer, mq>>

\* ------------------------------------------------------------------ calls
\* A caller enters a handler: the call is recorded with what the caller could
\* already observe (whether a Close had returned, whether a ReadFrom that
\* found the wrapper open had returned, whether the wrapper had started), and
\* the first operation on the wrapper is remembered.
Begin(c, op, live) ==
    /\ call' = [call EXCEPT ![c] =
                  [op |-> op, after |-> closeRet,
                   afterRf |-> \E d \in Callers :
                                  ret[d].done /\ call[d].op = "readfrom" /\ call[d].live,
                   live |-> live]]
    /\ calls' = calls + 1
    /\ firstOp' = IF firstOp = "none" THEN op ELSE firstOp
    /\ used' = (used \/ op \in {"read", "write", "readfrom", "writeto"})

\* The handler running call op returns (n, err).
Return(c, op, n, err, drained) ==
    /\ pc' = [pc EXCEPT ![c] = "idle"]
    /\ ret' = [ret EXCEPT ![c] = [done |-> TRUE, n |-> n, err |-> err,
                                   drained |-> drained]]
    /\ reg' = [reg EXCEPT ![c] = NoReg]
    /\ closeRet' = (closeRet \/ op = "close")

\* The handler goes on to its next step with locals (n, err).
Goto(c, where, n, err) ==
    /\ pc' = [pc EXCEPT ![c] = where]
    /\ ret' = [ret EXCEPT ![c] = NoRet]
    /\ reg' = [reg EXCEPT ![c] = [n |-> n, err |-> err]]
    /\ UNCHANGED closeRet

\* The callers are interchangeable goroutines: the next call is made by the
\* idle caller of least index.
CanCall(c) ==
    /\ pc[c] = "idle"
    /\ calls < MaxCalls
    /\ \A d \in Callers : d < c => pc[d] # "idle"

\* ----------------------------------------------------------------- writer
\* writer.Write / writer.ReadFrom, under the mutex: the first call that finds
\* the writer not closed sets started and runs init.
WriterStartAlways(w) == [w EXCEPT !.started = TRUE, !.inits = @ + 1]

WriterStart(w) ==
    IF ~w.started
    THEN [w EXCEPT !.started = TRUE, !.inits = @ + 1]
    ELSE w

\* writer.init: a fresh completion channel and the drain task.
WriterInit(w) ==
    IF w.inits > wrap.inits
    THEN /\ readCh' = <<>>
         /\ drain' = "spawned"
    ELSE UNCHANGED <<readCh, drain>>

\* The mutex-guarded head of Write and of ReadFrom.
WriterEnter(c, op, next) ==
    /\ wrap.kind = "writer"
    /\ CanCall(c)
    /\ Begin(c, op, ~wrap.closed)
    /\ IF wrap.closed
       THEN /\ Return(c, op, 0, ErrClosed, FALSE)
            /\ UNCHANGED <<wrap, readCh, drain>>
       ELSE /\ wrap' = WriterStart(wrap)
            /\ WriterInit(WriterStart(wrap))
            /\ Goto(c, next, 0, Nil)
    /\ UNCHANGED <<mach, executed, unit, sent, drainVal, cp, sh, pr, rtr, nfd, mck, env, trc, osd, cer, mq>>

WriterWriteLock(c) == WriterEnter(c, "write", "wWrite")

\* A Write that the unit takes whether or not it can be written.
UnitWriteResultsWritable == {Nil, ErrWrite}

\* w.w.Write(p): the unit's Write, or readOnlyBuffer.Write.
UnitWriteResults == IF unit.writable THEN {Nil, ErrWrite} ELSE {ErrReadOnly}

UnitWrite ==
    IF unit.writable
    THEN /\ unit' = [unit EXCEPT !.writes = TRUE]
         /\ UnitStart
    ELSE UNCHANGED <<unit, executed>>

WriterWriteUnit(c) ==
    /\ pc[c] = "wWrite"
    /\ \E e \in UnitWriteResults :
          Return(c, "write", IF e = Nil THEN 1 ELSE 0, e, FALSE)
    /\ UnitWrite
    /\ UNCHANGED <<mach, wrap, drain, readCh, sent, call, calls, firstOp, used, drainVal, cp, sh, pr, rtr, nfd, mck, env, trc, osd, cer, mq>>

\* The drain task: io.Copy(io.Discard, r) reads the unit to its end, then
\* sends the outcome on w.read.
DrainRead ==
    /\ drain = "spawned"
    /\ drain' = "reading"
    /\ unit' = [unit EXCEPT !.reads = TRUE]
    /\ UnitStart
    /\ UNCHANGED <<mach, wrap, readCh, sent, pc, call, reg, ret, calls,
                   firstOp, used, closeRet, drainVal, cp, sh, pr, rtr, nfd, mck, env, trc, osd, cer, mq>>

DrainSend ==
    /\ drain = "reading"
    /\ Len(readCh) = 0
    /\ \E e \in {Nil, ErrExec} :
          /\ readCh' = <<e>>
          /\ drainVal' = e
    /\ drain' = "done"
    /\ sent' = sent + 1
    /\ UNCHANGED <<mach, executed, wrap, unit, pc, call, reg, ret, calls,
                   firstOp, used, closeRet, cp, sh, pr, rtr, nfd, mck, env, trc, osd, cer, mq>>

\* A Close that forgets that the writer never started.
WriterCloseLockUnstarted(c) ==
    /\ wrap.kind = "writer"
    /\ CanCall(c)
    /\ Begin(c, "close", ~wrap.closed /\ wrap.started)
    /\ IF wrap.closed
       THEN /\ Return(c, "close", 0, Nil, FALSE)
            /\ UNCHANGED wrap
       ELSE /\ wrap' = [wrap EXCEPT !.closed = TRUE]
            /\ Goto(c, "wCloseIn", 0, Nil)
    /\ UNCHANGED <<mach, executed, unit, drain, readCh, sent, drainVal, cp, sh, pr, rtr, nfd, mck, env, trc, osd, cer, mq>>

\* writer.Close, under the mutex.
WriterCloseLock(c) ==
    /\ wrap.kind = "writer"
    /\ CanCall(c)
    /\ Begin(c, "close", ~wrap.closed /\ wrap.started)
    /\ IF wrap.closed
       THEN /\ Return(c, "close", 0, Nil, FALSE)
            /\ UNCHANGED wrap
       ELSE /\ wrap' = [wrap EXCEPT !.closed = TRUE]
            /\ IF ~wrap.started
               THEN Return(c, "close", 0, Nil, FALSE)
               ELSE Goto(c, "wCloseIn", 0, Nil)
    /\ UNCHANGED <<mach, executed, unit, drain, readCh, sent, drainVal, cp, sh, pr, rtr, nfd, mck, env, trc, osd, cer, mq>>

\* writer.Close: closer.Close() when w.w is an io.Closer; its error is
\* returned at once.
WriterCloseInput(c) ==
    /\ pc[c] = "wCloseIn"
    /\ IF unit.writable
       THEN /\ unit' = [unit EXCEPT !.closes = @ + 1]
            /\ wrap' = [wrap EXCEPT !.closeIns = @ + 1]
            /\ \E e \in {Nil, ErrCloseIn} :
                  IF e # Nil
                  THEN Return(c, "close", 0, e, FALSE)
                  ELSE Goto(c, "wCloseWait", 0, Nil)
       ELSE /\ UNCHANGED <<unit, wrap>>
            /\ Goto(c, "wCloseWait", 0, Nil)
    /\ UNCHANGED <<mach, executed, drain, readCh, sent, call, calls,
                   firstOp, used, drainVal, cp, sh, pr, rtr, nfd, mck, env, trc, osd, cer, mq>>

\* writer.Close: return <-w.read.
WriterCloseWait(c) ==
    /\ pc[c] = "wCloseWait"
    /\ Len(readCh) > 0
    /\ readCh' = Tail(readCh)
    /\ wrap' = [wrap EXCEPT !.recvs = @ + 1]
    /\ Return(c, "close", 0, Head(readCh), TRUE)
    /\ UNCHANGED <<mach, executed, unit, drain, sent, call, calls,
                   firstOp, used, drainVal, cp, sh, pr, rtr, nfd, mck, env, trc, osd, cer, mq>>

\* io.Copy(w, src) into the unit, for a source of at most MaxChunks chunks:
\* <<n, err, wrote>>, the chunks copied, the error, and whether the unit's
\* Write was called.  The copy ends at the source's end, at the source's
\* failure, or at the first failed Write.
CopyInOutcomes ==
    {<<n, e, n > 0>> : n \in 0..(IF unit.writable THEN MaxChunks ELSE 0),
                       e \in {Nil, ErrSrc}}
    \cup {<<n, e, TRUE>> : n \in 0..(IF unit.writable THEN MaxChunks - 1 ELSE 0),
                           e \in UnitWriteResults \ {Nil}}

\* writer.ReadFrom: the same guarded head as Write.
WriterReadFromLock(c) == WriterEnter(c, "readfrom", "wRfCopy")

\* writer.ReadFrom: n, err = io.Copy(w.w, src).
WriterReadFromCopy(c) ==
    /\ pc[c] = "wRfCopy"
    /\ \E o \in CopyInOutcomes :
          /\ Goto(c, "wRfClose", o[1], o[2])
          /\ IF o[3] THEN UnitWrite ELSE UNCHANGED <<unit, executed>>
    /\ UNCHANGED <<mach, wrap, drain, readCh, sent, call, calls, firstOp, used, drainVal, cp, sh, pr, rtr, nfd, mck, env, trc, osd, cer, mq>>

\* A ReadFrom that leaves the input side open when the copy failed.
WriterReadFromCloseOnSuccess(c) ==
    /\ pc[c] = "wRfClose"
    /\ IF unit.writable /\ reg[c].err = Nil
       THEN /\ unit' = [unit EXCEPT !.closes = @ + 1]
            /\ \E e \in {Nil, ErrCloseIn} :
                  Goto(c, "wRfWait", reg[c].n, e)
       ELSE /\ UNCHANGED unit
            /\ Goto(c, "wRfWait", reg[c].n, reg[c].err)
    /\ UNCHANGED <<mach, executed, wrap, drain, readCh, sent, call, calls,
                   firstOp, used, drainVal, cp, sh, pr, rtr, nfd, mck, env, trc, osd, cer, mq>>

\* writer.ReadFrom: the input side is closed after the copy, also on error;
\* the copy's error comes first.
WriterReadFromClose(c) ==
    /\ pc[c] = "wRfClose"
    /\ IF unit.writable
       THEN /\ unit' = [unit EXCEPT !.closes = @ + 1]
            /\ \E e \in {Nil, ErrCloseIn} :
                  Goto(c, "wRfWait", reg[c].n, IF reg[c].err = Nil THEN e ELSE reg[c].err)
       ELSE /\ UNCHANGED unit
            /\ Goto(c, "wRfWait", reg[c].n, reg[c].err)
    /\ UNCHANGED <<mach, executed, wrap, drain, readCh, sent, call, calls,
                   firstOp, used, drainVal, cp, sh, pr, rtr, nfd, mck, env, trc, osd, cer, mq>>

\* writer.ReadFrom: readErr := <-w.read.
WriterReadFromWait(c) ==
    /\ pc[c] = "wRfWait"
    /\ Len(readCh) > 0
    /\ readCh' = Tail(readCh)
    /\ Goto(c, "wRfMark", reg[c].n, IF reg[c].err = Nil THEN Head(readCh) ELSE reg[c].err)
    /\ UNCHANGED <<mach, executed, wrap, unit, drain, sent, call, calls,
                   firstOp, used, drainVal, cp, sh, pr, rtr, nfd, mck, env, trc, osd, cer, mq>>

\* A ReadFrom that returns without marking the writer closed.
WriterReadFromNoMark(c) ==
    /\ pc[c] = "wRfMark"
    /\ Return(c, "readfrom", reg[c].n, reg[c].err, TRUE)
    /\ UNCHANGED <<mach, executed, wrap, unit, drain, readCh, sent, call, calls,
                   firstOp, used, drainVal, cp, sh, pr, rtr, nfd, mck, env, trc, osd, cer, mq>>

\* writer.ReadFrom: closed is set under the mutex, and (n, err) returned.
WriterReadFromMark(c) ==
    /\ pc[c] = "wRfMark"
    /\ wrap' = [wrap EXCEPT !.closed = TRUE]
    /\ Return(c, "readfrom", reg[c].n, reg[c].err, TRUE)
    /\ UNCHANGED <<mach, executed, unit, drain, readCh, sent, call, calls,
                   firstOp, used, drainVal, cp, sh, pr, rtr, nfd, mck, env, trc, osd, cer, mq>>

\* ----------------------------------------------------------------- reader
\* A Read that does not look at closed.
ReaderReadLockUnchecked(c) ==
    /\ wrap.kind = "reader"
    /\ CanCall(c)
    /\ Begin(c, "read", ~wrap.closed)
    /\ wrap' = [wrap EXCEPT !.started = TRUE]
    /\ Goto(c, "rRead", 0, Nil)
    /\ UNCHANGED <<mach, executed, unit, drain, readCh, sent, drainVal, cp, sh, pr, rtr, nfd, mck, env, trc, osd, cer, mq>>

\* reader.Read, under the mutex.
ReaderReadLock(c) ==
    /\ wrap.kind = "reader"
    /\ CanCall(c)
    /\ Begin(c, "read", ~wrap.closed)
    /\ IF wrap.closed
       THEN /\ Return(c, "read", 0, ErrClosed, FALSE)
            /\ UNCHANGED wrap
       ELSE /\ wrap' = [wrap EXCEPT !.started = TRUE]
            /\ Goto(c, "rRead", 0, Nil)
    /\ UNCHANGED <<mach, executed, unit, drain, readCh, sent, drainVal, cp, sh, pr, rtr, nfd, mck, env, trc, osd, cer, mq>>

\* The unit's Read: bytes, the end of the stream, or the command's failure.
UnitReadResults == {<<1, Nil>>, <<0, EOF>>, <<0, ErrExec>>}

UnitRead ==
    /\ unit' = [unit EXCEPT !.reads = TRUE]
    /\ UnitStart

\* reader.Read: return r.r.Read(p).
ReaderReadUnit(c) ==
    /\ pc[c] = "rRead"
    /\ UnitRead
    /\ \E r \in UnitReadResults : Return(c, "read", r[1], r[2], FALSE)
    /\ UNCHANGED <<mach, wrap, drain, readCh, sent, call, calls, firstOp, used, drainVal, cp, sh, pr, rtr, nfd, mck, env, trc, osd, cer, mq>>

\* A Close that does not mark the reader closed.
ReaderCloseLockNoMark(c) ==
    /\ wrap.kind = "reader"
    /\ CanCall(c)
    /\ Begin(c, "close", ~wrap.closed /\ wrap.started)
    /\ IF wrap.closed
       THEN /\ Return(c, "close", 0, Nil, FALSE)
            /\ UNCHANGED wrap
       ELSE /\ UNCHANGED wrap
            /\ IF ~wrap.started
               THEN Return(c, "close", 0, Nil, FALSE)
               ELSE Goto(c, "rCancel", 0, Nil)
    /\ UNCHANGED <<mach, executed, unit, drain, readCh, sent, drainVal, cp, sh, pr, rtr, nfd, mck, env, trc, osd, cer, mq>>

\* reader.Close, under the mutex.
ReaderCloseLock(c) ==
    /\ wrap.kind = "reader"
    /\ CanCall(c)
    /\ Begin(c, "close", ~wrap.closed /\ wrap.started)
    /\ IF wrap.closed
       THEN /\ Return(c, "close", 0, Nil, FALSE)
            /\ UNCHANGED wrap
       ELSE /\ wrap' = [wrap EXCEPT !.closed = TRUE]
            /\ IF ~wrap.started
               THEN Return(c, "close", 0, Nil, FALSE)
               ELSE Goto(c, "rCancel", 0, Nil)
    /\ UNCHANGED <<mach, executed, unit, drain, readCh, sent, drainVal, cp, sh, pr, rtr, nfd, mck, env, trc, osd, cer, mq>>

\* A Close that waits until no Read is pending on the unit.
ReaderCloseCancelWaits(c) ==
    /\ pc[c] = "rCancel"
    /\ \A d \in Callers : pc[d] # "rRead"
    /\ wrap' = [wrap EXCEPT !.cancelled = TRUE, !.cancels = @ + 1]
    /\ IF unit.closable
       THEN /\ unit' = [unit EXCEPT !.closes = @ + 1]
            /\ \E e \in {Nil, ErrCloseIn} :
                  Return(c, "close", 0, e, FALSE)
       ELSE /\ UNCHANGED unit
            /\ Return(c, "close", 0, Nil, FALSE)
    /\ UNCHANGED <<mach, executed, drain, readCh, sent, call, calls,
                   firstOp, used, drainVal, cp, sh, pr, rtr, nfd, mck, env, trc, osd, cer, mq>>

\* reader.Close on a started reader: cancel the derived scope, then close the
\* unit when it is an io.Closer.
ReaderCloseCancel(c) ==
    /\ pc[c] = "rCancel"
    /\ wrap' = [wrap EXCEPT !.cancelled = TRUE, !.cancels = @ + 1]
    /\ IF unit.closable
       THEN /\ unit' = [unit EXCEPT !.closes = @ + 1]
            /\ \E e \in {Nil, ErrCloseIn} :
                  Return(c, "close", 0, e, FALSE)
       ELSE /\ UNCHANGED unit
            /\ Return(c, "close", 0, Nil, FALSE)
    /\ UNCHANGED <<mach, executed, drain, readCh, sent, call, calls,
                   firstOp, used, drainVal, cp, sh, pr, rtr, nfd, mck, env, trc, osd, cer, mq>>

\* ----------------------------------------------------------------- stream
\* A Read that fails once a Close of the Stream has returned.
StreamReadChecked(c) ==
    /\ wrap.kind = "stream"
    /\ CanCall(c)
    /\ Begin(c, "read", TRUE)
    /\ IF closeRet
       THEN /\ Return(c, "read", 0, ErrClosed, FALSE)
            /\ UNCHANGED <<unit, executed>>
       ELSE /\ UnitRead
            /\ \E r \in UnitReadResults : Return(c, "read", r[1], r[2], FALSE)
    /\ UNCHANGED <<mach, wrap, drain, readCh, sent, drainVal, cp, sh, pr, rtr, nfd, mck, env, trc, osd, cer, mq>>

\* stream.Read: s.buf.Read(p).
StreamRead(c) ==
    /\ wrap.kind = "stream"
    /\ CanCall(c)
    /\ Begin(c, "read", TRUE)
    /\ UnitRead
    /\ \E r \in UnitReadResults : Return(c, "read", r[1], r[2], FALSE)
    /\ UNCHANGED <<mach, wrap, drain, readCh, sent, drainVal, cp, sh, pr, rtr, nfd, mck, env, trc, osd, cer, mq>>

\* stream.Write: the unit's Write, or ErrReadOnly without write capability.
StreamWrite(c) ==
    /\ wrap.kind = "stream"
    /\ CanCall(c)
    /\ Begin(c, "write", TRUE)
    /\ UnitWrite
    /\ \E e \in UnitWriteResults :
          Return(c, "write", IF e = Nil THEN 1 ELSE 0, e, FALSE)
    /\ UNCHANGED <<mach, wrap, drain, readCh, sent, drainVal, cp, sh, pr, rtr, nfd, mck, env, trc, osd, cer, mq>>

\* stream.Close: the unit's Close when it is a WriteBuffer, else nothing.
StreamClose(c) ==
    /\ wrap.kind = "stream"
    /\ CanCall(c)
    /\ Begin(c, "close", TRUE)
    /\ IF unit.writable
       THEN /\ unit' = [unit EXCEPT !.closes = @ + 1]
            /\ \E e \in {Nil, ErrCloseIn} :
                  Return(c, "close", 0, e, FALSE)
       ELSE /\ UNCHANGED unit
            /\ Return(c, "close", 0, Nil, FALSE)
    /\ UNCHANGED <<mach, executed, wrap, drain, readCh, sent, drainVal, cp, sh, pr, rtr, nfd, mck, env, trc, osd, cer, mq>>

\* A ReadFrom that leaves the input side open after the copy.
StreamReadFromNoClose(c) ==
    /\ wrap.kind = "stream"
    /\ CanCall(c)
    /\ Begin(c, "readfrom", TRUE)
    /\ IF ~unit.writable
       THEN /\ Return(c, "readfrom", 0, ErrReadOnly, FALSE)
            /\ UNCHANGED <<unit, executed>>
       ELSE \E o \in CopyInOutcomes :
               /\ Return(c, "readfrom", o[1], o[2], FALSE)
               /\ unit' = [unit EXCEPT !.writes = @ \/ o[3]]
               /\ executed' = IF o[3] THEN executed \cup {"cmd"} ELSE executed
    /\ UNCHANGED <<mach, wrap, drain, readCh, sent, drainVal, cp, sh, pr, rtr, nfd, mck, env, trc, osd, cer, mq>>

\* stream.ReadFrom: ErrReadOnly without write capability; else io.Copy(wb, src)
\* and then wb.Close(), the copy's error coming first.
StreamReadFrom(c) ==
    /\ wrap.kind = "stream"
    /\ CanCall(c)
    /\ Begin(c, "readfrom", TRUE)
    /\ IF ~unit.writable
       THEN /\ Return(c, "readfrom", 0, ErrReadOnly, FALSE)
            /\ UNCHANGED <<unit, executed>>
       ELSE \E o \in CopyInOutcomes, e \in {Nil, ErrCloseIn} :
               /\ Return(c, "readfrom", o[1], IF o[2] = Nil THEN e ELSE o[2], FALSE)
               /\ unit' = [unit EXCEPT !.writes = @ \/ o[3], !.closes = @ + 1]
               /\ executed' = IF o[3] THEN executed \cup {"cmd"} ELSE executed
    /\ UNCHANGED <<mach, wrap, drain, readCh, sent, drainVal, cp, sh, pr, rtr, nfd, mck, env, trc, osd, cer, mq>>

\* src.WriteTo(stream) for a source of at most MaxChunks chunks that writes
\* itself out, as strings.Reader does: <<n, err, wrote>>.  An empty source
\* writes nothing; a failed Write ends it.
WriteToOutcomes ==
    {<<n, Nil, n > 0>> : n \in 0..(IF unit.writable THEN MaxChunks ELSE 0)}
    \cup {<<n, e, TRUE>> : n \in 0..(IF unit.writable THEN MaxChunks - 1 ELSE 0),
                           e \in UnitWriteResults \ {Nil}}

\* io.Copy(stream, src) with a src that is an io.WriterTo: io.Copy hands the
\* copy to src.WriteTo(stream), which calls stream.Write; stream.ReadFrom
\* and stream.Close are not called.  With any other src io.Copy calls
\* stream.ReadFrom, which is StreamReadFrom.
StreamWriteTo(c) ==
    /\ wrap.kind = "stream"
    /\ CanCall(c)
    /\ Begin(c, "writeto", TRUE)
    /\ \E o \in WriteToOutcomes :
          /\ Return(c, "writeto", o[1], o[2], FALSE)
          /\ IF o[3] THEN UnitWrite ELSE UNCHANGED <<unit, executed>>
    /\ UNCHANGED <<mach, wrap, drain, readCh, sent, drainVal, cp, sh, pr, rtr, nfd, mck, env, trc, osd, cer, mq>>

\* ------------------------------------------------------ the wrapper's spec
Machines ==
    {[kind |-> "plain", probed |-> FALSE, coreOS |-> FALSE]}
    \cup {[kind |-> "sh", probed |-> p, coreOS |-> o] : p \in BOOLEAN, o \in BOOLEAN}

Init ==
    /\ mach \in Machines
    /\ executed = {}
    /\ wrap = NoWrap
    /\ unit = NoUnit
    /\ drain = "none"
    /\ readCh = <<>>
    /\ sent = 0
    /\ pc = [c \in Callers |-> "idle"]
    /\ call = [c \in Callers |-> NoCall]
    /\ reg = [c \in Callers |-> NoReg]
    /\ ret = [c \in Callers |-> NoRet]
    /\ calls = 0
    /\ firstOp = "none"
    /\ used = FALSE
    /\ closeRet = FALSE
    /\ drainVal = "none"
    /\ cp = CopyIdle
    /\ sh = ShIdle
    /\ pr = ProbeIdle
    /\ RestIdle

Next ==
    \/ NewReader
    \/ NewWriter
    \/ NewStream
    \/ DrainRead
    \/ DrainSend
    \/ \E c \in Callers :
          \/ WriterWriteLock(c)
          \/ WriterWriteUnit(c)
          \/ WriterCloseLock(c)
          \/ WriterCloseInput(c)
          \/ WriterCloseWait(c)
          \/ WriterReadFromLock(c)
          \/ WriterReadFromCopy(c)
          \/ WriterReadFromClose(c)
          \/ WriterReadFromWait(c)
          \/ WriterReadFromMark(c)
          \/ ReaderReadLock(c)
          \/ ReaderReadUnit(c)
          \/ ReaderCloseLock(c)
          \/ ReaderCloseCancel(c)
          \/ StreamRead(c)
          \/ StreamWrite(c)
          \/ StreamClose(c)
          \/ StreamReadFrom(c)
          \/ StreamWriteTo(c)

Spec == Init /\ [][Next]_vars

\* ------------------------------------------------------------------- Copy
\* One call Copy(dst, src, mid...).  Endpoint 0 is src, endpoints 1..M are the
\* interior stages, endpoint M+1 is dst; edge i copies endpoint i into
\* endpoint i+1 and is the task started for i-1 in the code's loop.
\*
\* An endpoint that is an io.Closer behaves as a pipe: its reader sees the end
\* of the stream once its input is closed and drained.  One that is not ends
\* when it is empty.  Every Read, Write and Close of an endpoint may fail.
wrapVars == <<mach, executed, wrap, unit, drain, readCh, sent, pc, call, reg, ret,
              calls, firstOp, used, closeRet, drainVal, sh, pr, rtr, nfd, mck, env, trc, osd, cer, mq>>

Edges(M)   == 0..M
Writers(M) == 1..(M + 1)

ReadCause(i)  == <<"read", i>>      \* the failure of edge i's reader
WriteCause(i) == <<"write", i>>     \* the failure of a Write by edge i
CloseCause(i) == <<"close", i>>     \* the failure of edge i's Close of its writer

\* errors.Join(err, closeErr): nil when both are nil, else an error that wraps
\* the non-nil ones.  An error is the set of the causes it wraps; nil is {}.
ErrorsJoin(err, closeErr) == err \cup closeErr

NoResult == [set |-> FALSE, err |-> {}]

\* The bytes a source of d bytes yields, as "hello world" does: letters, and
\* a blank after each.
SrcData(d) == [k \in 1..d |-> IF k % 2 = 1 THEN "h" ELSE " "]

\* tr a-z A-Z on one byte.
Upper(b) == IF b = "h" THEN "H" ELSE b

\* A stage that passes its input on as it is.
StagePass(xf, M, j, b) == b

\* What endpoint j makes of a byte written to it: an interior stage that runs
\* tr gives its upper case, a pipe and the sink keep it.
Stage(xf, M, j, b) == IF j <= M /\ xf = "upper" THEN Upper(b) ELSE b

\* The state Copy starts in for M interior stages of kind xf, a source of d
\* bytes, and the endpoints of cl that are io.Closers.
CopyStart(M, d, cl, xf) ==
    [phase   |-> "run",
     M       |-> M,
     closer  |-> cl,
     xf      |-> xf,
     len     |-> d,
     src     |-> SrcData(d),
     buf     |-> [j \in Writers(M) |-> <<>>],
     closes  |-> [j \in Writers(M) |-> 0],
     task    |-> [i \in Edges(M) |-> "copy"],
     n       |-> [i \in Edges(M) |-> 0],
     err     |-> [i \in Edges(M) |-> {}],
     cerr    |-> [i \in Edges(M) |-> {}],
     eos     |-> [i \in Edges(M) |-> FALSE],
     results |-> [i \in Edges(M) |-> NoResult],
     written |-> 0,
     waitErr |-> {},
     failed  |-> FALSE,
     total   |-> 0]

Running(i) == cp.phase = "run" /\ i \in Edges(cp.M)

\* What edge i's reader has to give.
Available(i) == Len(IF i = 0 THEN cp.src ELSE cp.buf[i])

\* The byte edge i's reader gives next.
Front(i) == Head(IF i = 0 THEN cp.src ELSE cp.buf[i])

\* Edge i's reader is at the end of its stream.
AtEnd(i) ==
    /\ Available(i) = 0
    /\ i > 0 => (cp.closes[i] > 0 \/ i \notin cp.closer)

Take(i) ==
    IF i = 0 THEN [cp EXCEPT !.src = Tail(@)] ELSE [cp EXCEPT !.buf[i] = Tail(@)]

\* io.Copy(w, r) in edge i's task: one chunk read from r and written to w.
EdgeCopyChunk(i) ==
    /\ Running(i)
    /\ cp.task[i] = "copy"
    /\ Available(i) > 0
    /\ cp' = [Take(i) EXCEPT
                !.buf[i + 1] = Append(@, Stage(cp.xf, cp.M, i + 1, Front(i))),
                !.n[i] = @ + 1]
    /\ UNCHANGED wrapVars

\* io.Copy returns nil at the reader's end; the task sends n on count.
EdgeCopyEnd(i) ==
    /\ Running(i)
    /\ cp.task[i] = "copy"
    /\ AtEnd(i)
    /\ cp' = [cp EXCEPT !.task[i] = "close", !.eos[i] = TRUE,
                        !.written = @ + cp.n[i]]
    /\ UNCHANGED wrapVars

\* A task that sends its count also when its copy failed.
EdgeCopyFailCounted(i) ==
    /\ Running(i)
    /\ cp.task[i] = "copy"
    /\ \/ cp' = [cp EXCEPT !.task[i] = "close", !.err[i] = {ReadCause(i)},
                           !.written = @ + cp.n[i]]
       \/ /\ Available(i) > 0
          /\ cp' = [Take(i) EXCEPT !.task[i] = "close", !.err[i] = {WriteCause(i)},
                                   !.written = @ + cp.n[i]]
    /\ UNCHANGED wrapVars

\* io.Copy returns the reader's error, or the error of a Write of a chunk it
\* had read; nothing is sent on count.
EdgeCopyFail(i) ==
    /\ Running(i)
    /\ cp.task[i] = "copy"
    /\ \/ cp' = [cp EXCEPT !.task[i] = "close", !.err[i] = {ReadCause(i)}]
       \/ /\ Available(i) > 0
          /\ cp' = [Take(i) EXCEPT !.task[i] = "close", !.err[i] = {WriteCause(i)}]
    /\ UNCHANGED wrapVars

\* g.Go's first non-nil return is what g.Wait returns.
GroupError(waitErr, err) == IF waitErr = {} THEN err ELSE waitErr

\* The task's deferred function: the writer is closed when it is an
\* io.Closer, and results.set records errors.Join(err, closeErr); the task
\* itself returns err.
EdgeCloseWith(i, canRun) ==
    /\ Running(i)
    /\ canRun
    /\ \E ce \in (IF (i + 1) \in cp.closer THEN {{}, {CloseCause(i)}} ELSE {{}}) :
          cp' = [cp EXCEPT
                   !.task[i] = "done",
                   !.closes[i + 1] = IF (i + 1) \in cp.closer THEN @ + 1 ELSE @,
                   !.cerr[i] = ce,
                   !.results[i] = [set |-> TRUE, err |-> ErrorsJoin(cp.err[i], ce)],
                   !.waitErr = GroupError(@, cp.err[i])]
    /\ UNCHANGED wrapVars

\* A task that closes its writer without waiting for its copy to end.
EdgeCloseEarly(i) == EdgeCloseWith(i, cp.task[i] \in {"copy", "close"})

\* A task that closes its writer only when its copy succeeded.
EdgeCloseOnSuccess(i) ==
    \/ EdgeCloseWith(i, cp.task[i] = "close" /\ cp.err[i] = {})
    \/ /\ Running(i)
       /\ cp.task[i] = "close"
       /\ cp.err[i] # {}
       /\ cp' = [cp EXCEPT !.task[i] = "done",
                           !.results[i] = [set |-> TRUE, err |-> cp.err[i]],
                           !.waitErr = GroupError(@, cp.err[i])]
       /\ UNCHANGED wrapVars

EdgeClose(i) == EdgeCloseWith(i, cp.task[i] = "close")

\* An Unwrap that stops at the first result that has an error.
CopyErrorUnwrapFirst(results) ==
    LET bad == {k \in DOMAIN results : results[k].err # {}}
    IN  {results[i].err : i \in {k \in bad : \A l \in bad : k <= l}}

\* copyError.Unwrap: the errors of the results that have one.
CopyErrorUnwrap(results) ==
    {results[i].err : i \in {k \in DOMAIN results : results[k].err # {}}}

\* errors.Is(err, cause) on the error Copy returned.
ErrorsIs(failed, results, cause) ==
    failed /\ \E e \in CopyErrorUnwrap(results) : cause \in e

\* A Wait that returns at the first failure.
CopyCanReturnFailFast ==
    \/ \A i \in Edges(cp.M) : cp.task[i] = "done"
    \/ cp.waitErr # {}

\* g.Wait() has returned: every task is done.
CopyCanReturn == \A i \in Edges(cp.M) : cp.task[i] = "done"

\* err = g.Wait(); close(count); the error is the copyError when err is not
\* nil; return <-total, err.
CopyReturn ==
    /\ cp.phase = "run"
    /\ CopyCanReturn
    /\ cp' = [cp EXCEPT !.phase = "done",
                        !.failed = (cp.waitErr # {}),
                        !.total = cp.written]
    /\ UNCHANGED wrapVars

InitCopy ==
    /\ mach = [kind |-> "plain", probed |-> FALSE, coreOS |-> FALSE]
    /\ executed = {}
    /\ wrap = NoWrap
    /\ unit = NoUnit
    /\ drain = "none"
    /\ readCh = <<>>
    /\ sent = 0
    /\ pc = [c \in Callers |-> "idle"]
    /\ call = [c \in Callers |-> NoCall]
    /\ reg = [c \in Callers |-> NoReg]
    /\ ret = [c \in Callers |-> NoRet]
    /\ calls = 0
    /\ firstOp = "none"
    /\ used = FALSE
    /\ closeRet = FALSE
    /\ drainVal = "none"
    /\ sh = ShIdle
    /\ pr = ProbeIdle
    /\ RestIdle
    /\ \E M \in 0..MaxMid, d \in 0..MaxData, cl \in SUBSET Writers(MaxMid),
          xf \in {"pipe", "upper"} :
          /\ cl \subseteq Writers(M)
          /\ M = 0 => xf = "pipe"
          /\ cp = CopyStart(M, d, cl, xf)

EdgeTask(i) ==
    \/ EdgeCopyChunk(i)
    \/ EdgeCopyEnd(i)
    \/ EdgeCopyFail(i)
    \/ EdgeClose(i)

NextCopy ==
    \/ \E i \in 0..MaxMid : EdgeTask(i)
    \/ CopyReturn

SpecCopy == InitCopy /\ [][NextCopy]_vars

\* The tasks are goroutines: each one that can take a step eventually does.
SpecCopyFair ==
    /\ InitCopy
    /\ [][NextCopy]_vars
    /\ \A i \in 0..MaxMid : WF_vars(EdgeTask(i))
    /\ WF_vars(CopyReturn)

\* ----------------------------------------------------------------- errors
\* An error as NotFound sees it: whether errors.As finds a *command.Error in
\* its chain, whether that Error's Err is set, and its Code.
NilErr       == [cmdErr |-> FALSE, errSet |-> FALSE, code |-> 0]
\* &Error{Err: fmt.Errorf("command not found: ...")}
ErrNotFound  == [cmdErr |-> TRUE, errSet |-> TRUE, code |-> 0]
\* fmt.Errorf("no command specified")
ErrNoCommand == [cmdErr |-> FALSE, errSet |-> TRUE, code |-> 0]
\* A command that started and ended with a non-zero code.
ExitError    == [cmdErr |-> TRUE, errSet |-> FALSE, code |-> 1]

\* A NotFound that takes every error for not-found.
NotFoundAny(err) == err # NilErr

NotFound(err) ==
    IF ~err.cmdErr THEN FALSE ELSE err.errSet /\ err.code = 0

\* ----------------------------------------------------------------- Router
\* One Router (Sh) over a core, with executor A registered for the names of
\* sh.routes, used by concurrent goroutines that each call OS, Arch, FS or
\* Command once.  once.Do is one step: sync.Once lets no other caller past
\* it before the first has finished.  The check and the assignment of
\* sh.fsys are two steps: no lock covers them.
shOthers == <<mach, executed, wrap, unit, drain, readCh, sent, pc, call, reg, ret,
              calls, firstOp, used, closeRet, drainVal, cp, pr, rtr, nfd, mck, env, trc, osd, cer, mq>>

ArgLists == {<<>>, <<"echo", "hi">>, <<"cat", "f">>}

\* The probes of detectOS and detectArch, as the core receives them.
OSProbes == {<<"uname", "-s">>, <<"uname", "-m">>}

CoreFS == 100       \* the filesystem a core that is an FSMachine hands out

NoGo == [pc |-> "idle", op |-> "none", args |-> <<>>, sawNil |-> FALSE,
         val |-> "none"]

\* Shell(core, commands...) / Handle(m, command, handler): the Router before
\* its first use.  rich: the core is an OSMachine, ArchMachine and FSMachine.
ShStart(fallback, routes, rich) ==
    [phase    |-> "run",
     fallback |-> fallback,
     routes   |-> routes,
     rich     |-> rich,
     once     |-> FALSE,
     os       |-> "",
     arch     |-> "",
     fsys     |-> 0,
     osCalls  |-> 0,
     fsCalls  |-> 0,
     toA      |-> {},
     toCore   |-> {},
     g        |-> [c \in Callers |-> NoGo]]

\* A routing that always falls back to the core.
commandFallback(fallback, routes, args) ==
    IF Len(args) = 0 THEN [to |-> "none", err |-> ErrNoCommand]
    ELSE IF args[1] \in routes THEN [to |-> "A", err |-> NilErr]
    ELSE [to |-> "core", err |-> NilErr]

\* Sh.command: the executor the call is delegated to, and the error the
\* returned Buffer's Read gives.
command(fallback, routes, args) ==
    IF Len(args) = 0 THEN [to |-> "none", err |-> ErrNoCommand]
    ELSE IF args[1] \in routes THEN [to |-> "A", err |-> NilErr]
    ELSE IF fallback THEN [to |-> "core", err |-> NilErr]
    ELSE [to |-> "none", err |-> ErrNotFound]

\* The goroutines are interchangeable: the next call is made by the idle one
\* of least index.
ShCanCall(c) ==
    /\ sh.phase = "run"
    /\ sh.g[c].pc = "idle"
    /\ \A d \in Callers : d < c => sh.g[d].pc # "idle"

\* An init that detects the OS and the architecture without running a
\* command on the core.
ShOnceSilent(r) ==
    IF r.once THEN r
    ELSE [r EXCEPT !.once = TRUE, !.os = "linux", !.arch = "amd64",
                   !.osCalls = @ + 1]

\* Sh.init: sh.once.Do(func() { sh.os = OS(ctx, sh.m); sh.arch = Arch(ctx, sh.m) }).
\* A core that does not answer itself is probed with commands.
ShOnce(r) ==
    IF r.once THEN r
    ELSE [r EXCEPT !.once = TRUE, !.os = "linux", !.arch = "amd64",
                   !.osCalls = @ + 1,
                   !.toCore = IF r.rich THEN @ ELSE @ \cup OSProbes]

\* Sh.OS, Sh.Arch, Sh.Command: the call enters init and passes once.Do.
ShEnter(c) ==
    /\ ShCanCall(c)
    /\ \E op \in {"OS", "Arch", "Command"}, a \in ArgLists :
          /\ op # "Command" => a = <<>>
          /\ sh' = [ShOnce(sh) EXCEPT !.g[c] = [NoGo EXCEPT !.pc = "check", !.op = op,
                                                           !.args = a]]
    /\ UNCHANGED shOthers

\* Sh.FS: the call starts at the check of sh.fsys.
ShFS(c) ==
    /\ ShCanCall(c)
    /\ sh' = [sh EXCEPT !.g[c] = [NoGo EXCEPT !.pc = "check", !.op = "FS"]]
    /\ UNCHANGED shOthers

\* if sh.fsys == nil
ShFsCheck(c) ==
    /\ sh.phase = "run"
    /\ sh.g[c].pc = "check"
    /\ sh' = [sh EXCEPT !.g[c].pc = IF sh.fsys = 0 THEN "set" ELSE "ret",
                        !.g[c].sawNil = (sh.fsys = 0)]
    /\ UNCHANGED shOthers

\* sh.fsys = FS(sh.m): the core's filesystem when it has one, else a new cmdFS.
ShFsSet(c) ==
    /\ sh.phase = "run"
    /\ sh.g[c].pc = "set"
    /\ sh' = [sh EXCEPT !.g[c].pc = "ret",
                        !.fsCalls = @ + 1,
                        !.fsys = IF sh.rich THEN CoreFS ELSE sh.fsCalls + 1]
    /\ UNCHANGED shOthers

\* return sh.os / sh.arch / sh.fsys / sh.command(ctx, sh.fallback, args...)
ShReturn(c) ==
    /\ sh.phase = "run"
    /\ sh.g[c].pc = "ret"
    /\ LET op == sh.g[c].op
           rt == command(sh.fallback, sh.routes, sh.g[c].args)
       IN  sh' = [sh EXCEPT
                    !.g[c].pc = "done",
                    !.g[c].val = CASE op = "OS" -> sh.os
                                   [] op = "Arch" -> sh.arch
                                   [] op = "FS" -> sh.fsys
                                   [] OTHER -> rt.err,
                    !.toA = IF op = "Command" /\ rt.to = "A"
                            THEN @ \cup {sh.g[c].args} ELSE @,
                    !.toCore = IF op = "Command" /\ rt.to = "core"
                               THEN @ \cup {sh.g[c].args} ELSE @]
    /\ UNCHANGED shOthers

InitSh ==
    /\ mach = [kind |-> "plain", probed |-> FALSE, coreOS |-> FALSE]
    /\ executed = {}
    /\ wrap = NoWrap
    /\ unit = NoUnit
    /\ drain = "none"
    /\ readCh = <<>>
    /\ sent = 0
    /\ pc = [c \in Callers |-> "idle"]
    /\ call = [c \in Callers |-> NoCall]
    /\ reg = [c \in Callers |-> NoReg]
    /\ ret = [c \in Callers |-> NoRet]
    /\ calls = 0
    /\ firstOp = "none"
    /\ used = FALSE
    /\ closeRet = FALSE
    /\ drainVal = "none"
    /\ cp = CopyIdle
    /\ pr = ProbeIdle
    /\ RestIdle
    /\ \E f \in BOOLEAN, rs \in {{}, {"echo"}}, rich \in BOOLEAN :
          sh = ShStart(f, rs, rich)

NextSh ==
    \E c \in Callers :
        \/ ShEnter(c)
        \/ ShFS(c)
        \/ ShFsCheck(c)
        \/ ShFsSet(c)
        \/ ShReturn(c)

SpecSh == InitSh /\ [][NextSh]_vars

\* ------------------------------------------------------------------ probe
\* One call probeRead(ctx, m, "uname", "-s") on the outermost of pr.K nested
\* Routers.  Layer 0 is the base executor, which is no Unsheller; layer l > 0
\* is a Router whose core is layer l-1.  A Router may have an executor
\* registered for the probe's command (pr.reg), and may fall back to its core
\* (pr.fallback).
prOthers == <<mach, executed, wrap, unit, drain, readCh, sent, pc, call, reg, ret,
              calls, firstOp, used, closeRet, drainVal, cp, sh, rtr, nfd, mck, env, trc, osd, cer, mq>>

Layers(K) == 1..K

\* What a command can end with: success, not found, a failure of its own.
Answers == {NilErr, ErrNotFound, ExitError}

ProbeStart(K, rg, fb, hAns, baseAns) ==
    [phase    |-> "run",
     K        |-> K,
     reg      |-> rg,
     fallback |-> fb,
     hAns     |-> hAns,
     baseAns  |-> baseAns,
     pc       |-> "read",
     layer    |-> K,
     attempts |-> 0,
     descents |-> 0,
     err      |-> NilErr]

\* Read(ctx, m, args...) on layer l: the error of reading the Buffer that
\* m.Command returns.  A Router routes as Sh.command does.
RECURSIVE ReadAt(_, _)
ReadAt(p, l) ==
    IF l = 0 THEN p.baseAns
    ELSE IF p.reg[l] THEN p.hAns
    ELSE IF p.fallback[l] THEN ReadAt(p, l - 1)
    ELSE ErrNotFound

\* An Unshell that hands back the machine it was called on.
UnshellSelf(l) == l

\* Sh.Unshell: the machine one layer down.
Unshell(l) == l - 1

\* output, err = Read(ctx, m, args...)
ProbeRead ==
    /\ pr.phase = "run"
    /\ pr.pc = "read"
    /\ pr.attempts <= MaxLayers + 1
    /\ pr' = [pr EXCEPT !.pc = "decide", !.attempts = @ + 1,
                        !.err = ReadAt(pr, pr.layer)]
    /\ UNCHANGED prOthers

\* if err == nil || !NotFound(err) { return }
ProbeReturn ==
    /\ pr.phase = "run"
    /\ pr.pc = "decide"
    /\ pr.err = NilErr \/ ~NotFound(pr.err)
    /\ pr' = [pr EXCEPT !.pc = "done"]
    /\ UNCHANGED prOthers

\* m is an Unsheller with a machine below it: m = unshelled; continue
ProbeUnshell ==
    /\ pr.phase = "run"
    /\ pr.pc = "decide"
    /\ ~(pr.err = NilErr \/ ~NotFound(pr.err))
    /\ pr.layer >= 1
    /\ pr' = [pr EXCEPT !.pc = "read", !.layer = Unshell(pr.layer),
                        !.descents = @ + 1]
    /\ UNCHANGED prOthers

\* m is no Unsheller: return the not-found result
ProbeBottom ==
    /\ pr.phase = "run"
    /\ pr.pc = "decide"
    /\ ~(pr.err = NilErr \/ ~NotFound(pr.err))
    /\ pr.layer = 0
    /\ pr' = [pr EXCEPT !.pc = "done"]
    /\ UNCHANGED prOthers

InitProbe ==
    /\ mach = [kind |-> "plain", probed |-> FALSE, coreOS |-> FALSE]
    /\ executed = {}
    /\ wrap = NoWrap
    /\ unit = NoUnit
    /\ drain = "none"
    /\ readCh = <<>>
    /\ sent = 0
    /\ pc = [c \in Callers |-> "idle"]
    /\ call = [c \in Callers |-> NoCall]
    /\ reg = [c \in Callers |-> NoReg]
    /\ ret = [c \in Callers |-> NoRet]
    /\ calls = 0
    /\ firstOp = "none"
    /\ used = FALSE
    /\ closeRet = FALSE
    /\ drainVal = "none"
    /\ cp = CopyIdle
    /\ sh = ShIdle
    /\ RestIdle
    /\ \E K \in 0..MaxLayers :
          \E rg \in [Layers(K) -> BOOLEAN], fb \in [Layers(K) -> BOOLEAN],
             hAns \in Answers, baseAns \in Answers :
              pr = ProbeStart(K, rg, fb, hAns, baseAns)

NextProbe ==
    \/ ProbeRead
    \/ ProbeReturn
    \/ ProbeUnshell
    \/ ProbeBottom

SpecProbe == InitProbe /\ [][NextProbe]_vars

\* probeRead runs in the goroutine that called it, which goes on.
SpecProbeFair == InitProbe /\ [][NextProbe]_vars /\ WF_vars(NextProbe)

\* ----------------------------------------------------------- registration
\* A program that holds one machine variable m and builds Routers over it:
\*   m = Shell(m, commands...)      m = Handle(m, name, handler)
\*   m.(*Sh).Handle(name, handler)  m = Unshell(m)   m.Command(ctx, name)
\* Machines are numbers: 0 is nil, 1 the original machine, 2 and 3 two
\* handlers, none of them a Router or an Unsheller; 10 + i is the i-th Router
\* made, rtr.shs[i].
routeOthers == <<mach, executed, wrap, unit, drain, readCh, sent, pc, call, reg, ret,
                 calls, firstOp, used, closeRet, drainVal, cp, sh, pr, nfd, mck, env, trc, osd, cer, mq>>

Original == 1
Handlers == {2, 3}
Names    == {"echo", "cat"}

IsSh(m)  == m > 10
ShOf(m)  == m - 10

NoRoutes == [n \in Names |-> 0]

NoLast == [op |-> "none", m |-> 0, name |-> "", h |-> 0]
NoDisp == [name |-> "", to |-> 0, err |-> NilErr]

\* &Sh{m: core}: no routes, no fallback, nothing cached.
NewSh(core, by) ==
    [m |-> core, fallback |-> FALSE, routes |-> NoRoutes, once |-> FALSE, by |-> by]

\* Sh.Handle that keeps the executor a name already has.
ShHandleKeepFirst(s, name, machine) ==
    IF s.routes[name] # 0 THEN s
    ELSE [s EXCEPT !.routes = [@ EXCEPT ![name] = machine]]

\* Sh.Handle: sh.routes.Set(command, machine).
ShHandle(s, name, machine) ==
    [s EXCEPT !.routes = [@ EXCEPT ![name] = machine]]

RECURSIVE ShellCommands(_, _)
\* Shell's loop: sh = sh.Handle(cmd, sh.Unshell()) for each of commands.
ShellCommands(s, cmds) ==
    IF cmds = {} THEN s
    ELSE LET n == CHOOSE x \in cmds : TRUE
         IN  ShellCommands(ShHandle(s, n, s.m), cmds \ {n})

\* Shell(core, commands...).
Shell(core, cmds) == ShellCommands(NewSh(core, "Shell"), cmds)

\* Package-level Handle on a machine that is no Router, leaving the new
\* Router strict.
HandleNewStrict(core, name, handler) ==
    ShHandle(NewSh(core, "Handle"), name, handler)

\* Package-level Handle on a machine that is no Router: sh := Shell(m);
\* sh.fallback = true; sh.Handle(command, handler).
HandleNew(core, name, handler) ==
    ShHandle([NewSh(core, "Handle") EXCEPT !.fallback = TRUE], name, handler)

\* An Unshell that goes down to the machine under every Router.
UnshellAll(shs, m) ==
    IF IsSh(m) /\ shs[ShOf(m)].m # 0 THEN Original ELSE m

\* Unshell(m): the Unsheller's Unshell() when m is one and it is not nil,
\* else m.  Sh.Unshell returns sh.m.
UnshellMachine(shs, m) ==
    IF IsSh(m) /\ shs[ShOf(m)].m # 0 THEN shs[ShOf(m)].m ELSE m

RECURSIVE Dispatch(_, _, _)
\* m.Command(ctx, name): the machine that ends up running the command, by
\* Sh.command on every Router on the way, or the not-found error.
Dispatch(shs, m, name) ==
    IF ~IsSh(m) THEN [to |-> m, err |-> NilErr]
    ELSE LET s == shs[ShOf(m)]
         IN  IF name = "" THEN [to |-> 0, err |-> ErrNoCommand]
             ELSE IF name \in Names /\ s.routes[name] # 0
                  THEN Dispatch(shs, s.routes[name], name)
             ELSE IF s.fallback THEN Dispatch(shs, s.m, name)
             ELSE [to |-> 0, err |-> ErrNotFound]

RECURSIVE Path(_, _, _)
\* The Routers whose Command is called on the way.
Path(shs, m, name) ==
    IF ~IsSh(m) THEN {}
    ELSE LET s == shs[ShOf(m)]
         IN  {ShOf(m)} \cup
             (IF name = "" THEN {}
              ELSE IF name \in Names /\ s.routes[name] # 0
                   THEN Path(shs, s.routes[name], name)
              ELSE IF s.fallback THEN Path(shs, s.m, name)
              ELSE {})

RECURSIVE Cores(_, _)
\* Sh.init probes sh.m with OS and Arch; a core that is a Router answers
\* with its own Sh.OS, which runs its init.
Cores(shs, i) ==
    {i} \cup (IF IsSh(shs[i].m) THEN Cores(shs, ShOf(shs[i].m)) ELSE {})

Inited(shs, m, name) ==
    UNION {Cores(shs, i) : i \in Path(shs, m, name)}

RouteStart ==
    [phase |-> "run", m |-> Original, shs |-> <<>>, regs |-> 0,
     last |-> NoLast, disp |-> NoDisp]

\* m = Shell(m, commands...)
RtShell ==
    /\ rtr.phase = "run"
    /\ rtr.regs < MaxBuild
    /\ \E cmds \in {{}, {"cat"}} :
          rtr' = [rtr EXCEPT !.shs = Append(@, Shell(rtr.m, cmds)),
                             !.m = 10 + Len(rtr.shs) + 1,
                             !.regs = @ + 1,
                             !.disp = NoDisp,
                             !.last = [op |-> "Shell", m |-> rtr.m, name |-> "", h |-> 0]]
    /\ UNCHANGED routeOthers

\* m = Handle(m, name, handler)
RtHandle ==
    /\ rtr.phase = "run"
    /\ rtr.regs < MaxBuild
    /\ \E name \in Names, h \in Handlers :
          /\ IF IsSh(rtr.m)
             THEN rtr' = [rtr EXCEPT !.shs[ShOf(rtr.m)] = ShHandle(@, name, h),
                                     !.regs = @ + 1,
                                     !.disp = NoDisp,
                                     !.last = [op |-> "Handle", m |-> rtr.m,
                                               name |-> name, h |-> h]]
             ELSE rtr' = [rtr EXCEPT !.shs = Append(@, HandleNew(rtr.m, name, h)),
                                     !.m = 10 + Len(rtr.shs) + 1,
                                     !.regs = @ + 1,
                                     !.disp = NoDisp,
                                     !.last = [op |-> "Handle", m |-> rtr.m,
                                               name |-> name, h |-> h]]
    /\ UNCHANGED routeOthers

\* sh.Handle(name, handler), with sh the Router m; handler may be sh.Unshell().
RtShHandle ==
    /\ rtr.phase = "run"
    /\ rtr.regs < MaxBuild
    /\ IsSh(rtr.m)
    /\ \E name \in Names, h \in Handlers \cup {rtr.shs[ShOf(rtr.m)].m} :
          rtr' = [rtr EXCEPT !.shs[ShOf(rtr.m)] = ShHandle(@, name, h),
                             !.regs = @ + 1,
                             !.disp = NoDisp,
                             !.last = [op |-> "ShHandle", m |-> rtr.m,
                                       name |-> name, h |-> h]]
    /\ UNCHANGED routeOthers

\* m = Unshell(m)
RtUnshell ==
    /\ rtr.phase = "run"
    /\ rtr.last.op # "Unshell" \/ IsSh(rtr.m)
    /\ rtr' = [rtr EXCEPT !.m = UnshellMachine(rtr.shs, rtr.m),
                          !.disp = NoDisp,
                          !.last = [op |-> "Unshell", m |-> rtr.m, name |-> "", h |-> 0]]
    /\ UNCHANGED routeOthers

\* m.Command(ctx, name): Sh.Command runs init and routes.
RtCommand ==
    /\ rtr.phase = "run"
    /\ \E name \in Names \cup {"tr"} :
          LET d == Dispatch(rtr.shs, rtr.m, name)
              on == Inited(rtr.shs, rtr.m, name)
          IN  rtr' = [rtr EXCEPT
                        !.shs = [i \in 1..Len(rtr.shs) |->
                                    IF i \in on THEN [rtr.shs[i] EXCEPT !.once = TRUE]
                                    ELSE rtr.shs[i]],
                        !.disp = [name |-> name, to |-> d.to, err |-> d.err],
                        !.last = [op |-> "Command", m |-> rtr.m, name |-> name, h |-> 0]]
    /\ UNCHANGED routeOthers

InitRoute ==
    /\ mach = [kind |-> "plain", probed |-> FALSE, coreOS |-> FALSE]
    /\ executed = {}
    /\ wrap = NoWrap
    /\ unit = NoUnit
    /\ drain = "none"
    /\ readCh = <<>>
    /\ sent = 0
    /\ pc = [c \in Callers |-> "idle"]
    /\ call = [c \in Callers |-> NoCall]
    /\ reg = [c \in Callers |-> NoReg]
    /\ ret = [c \in Callers |-> NoRet]
    /\ calls = 0
    /\ firstOp = "none"
    /\ used = FALSE
    /\ closeRet = FALSE
    /\ drainVal = "none"
    /\ cp = CopyIdle
    /\ sh = ShIdle
    /\ pr = ProbeIdle
    /\ rtr = RouteStart
    /\ nfd = NfIdle
    /\ mck = MockIdle
    /\ env = EnvIdle
    /\ trc = TraceIdle
    /\ osd = OsIdle
    /\ cer = CerIdle
    /\ mq = QueueIdle

NextRoute ==
    \/ RtShell
    \/ RtHandle
    \/ RtShHandle
    \/ RtUnshell
    \/ RtCommand

SpecRoute == InitRoute /\ [][NextRoute]_vars

\* -------------------------------------------------------------- OS, Arch
\* One call OS(ctx, m) or Arch(ctx, m) on the outermost of osd.K nested
\* Routers, laid out as in the probe: layer 0 is the base machine, layer
\* l > 0 a Router over layer l-1 that may have a handler registered for
\* "uname" (osd.reg) and may fall back (osd.fallback).  The base may be an
\* OSMachine and ArchMachine (osd.rich); a Router always is one.  Neither the
\* base nor a handler is a Windows or Darwin system: they do not answer
\* "cmd" or "powershell", and detectArch does not take its Darwin branch.
osOthers == <<mach, executed, wrap, unit, drain, readCh, sent, pc, call, reg, ret,
              calls, firstOp, used, closeRet, drainVal, cp, sh, pr, rtr, nfd, mck, env, trc, cer, mq>>

\* What uname prints: on the base, and from a handler.
BaseOut(what)    == IF what = "OS" THEN "Linux\n" ELSE "x86_64\n"
HandlerOut(what) == IF what = "OS" THEN "FreeBSD\n" ELSE "aarch64\n"

\* strings.TrimSpace(strings.ToLower(out)) in detectOS, with msys_nt read as
\* windows.
OSName(out) ==
    CASE out = "Linux\n"   -> "linux"
      [] out = "FreeBSD\n" -> "freebsd"
      [] out = "MSYS_NT\n" -> "windows"
      [] OTHER             -> ""

\* mapArchitecture(strings.TrimSpace(out)).
mapArchitecture(out) ==
    CASE out = "x86_64\n"  -> "amd64"
      [] out = "aarch64\n" -> "arm64"
      [] OTHER             -> "unknown"

OsStart(what, K, rg, fb, rich, baseAns, quiet) ==
    [phase    |-> "run",
     what     |-> what,
     K        |-> K,
     reg      |-> rg,
     fallback |-> fb,
     rich     |-> rich,
     baseAns  |-> baseAns,
     quiet    |-> quiet,
     pc       |-> "enter",
     layer    |-> K,
     val      |-> "",
     asked    |-> {}]

RECURSIVE ReadOut(_, _)
\* Read(ctx, m, "uname", ...) on layer l: the error, the output, and the
\* executor that ran the command (-1: none).
ReadOut(p, l) ==
    IF l = 0
    THEN [err |-> p.baseAns,
          out |-> IF p.baseAns = NilErr /\ ~p.quiet THEN BaseOut(p.what) ELSE "",
          by |-> 0]
    ELSE IF p.reg[l] THEN [err |-> NilErr, out |-> HandlerOut(p.what), by |-> l]
    ELSE IF p.fallback[l] THEN ReadOut(p, l - 1)
    ELSE [err |-> ErrNotFound, out |-> "", by |-> -1]

RECURSIVE ProbeOut(_, _)
\* probeRead(ctx, m, "uname", ...) from layer l: the last Read's result and
\* every executor that ran the command.
ProbeOut(p, l) ==
    LET r == ReadOut(p, l)
    IN  IF r.err = NilErr \/ ~NotFound(r.err) \/ l = 0
        THEN [err |-> r.err, out |-> r.out, asked |-> {r.by} \ {-1}]
        ELSE LET d == ProbeOut(p, Unshell(l))
             IN  [d EXCEPT !.asked = @ \cup ({r.by} \ {-1})]

\* detectOS / detectArch from layer l: the first probe, and "unknown" when
\* it fails, since nothing answers the Windows probes.
Detect(p, l) ==
    LET r == ProbeOut(p, l)
    IN  [val |-> IF r.err # NilErr THEN "unknown"
                 ELSE IF p.what = "OS" THEN OSName(r.out)
                 ELSE mapArchitecture(r.out),
         asked |-> r.asked]

\* What an OSMachine / ArchMachine that is no Router says of itself.
BaseSays(p) == IF p.what = "OS" THEN "linux" ELSE "amd64"

\* OS(ctx, m) with m a Router: m is an OSMachine, so osm.OS(ctx) is called;
\* Sh.OS runs init, whose once.Do calls OS(ctx, sh.m) and Arch(ctx, sh.m).
OsDescend ==
    /\ osd.phase = "run"
    /\ osd.pc = "enter"
    /\ osd.layer >= 1
    /\ osd' = [osd EXCEPT !.layer = @ - 1]
    /\ UNCHANGED osOthers

\* OS(ctx, m) with m the base: its own answer when it is an OSMachine with a
\* non-empty one, else detectOS(ctx, m).
OsBase ==
    /\ osd.phase = "run"
    /\ osd.pc = "enter"
    /\ osd.layer = 0
    /\ LET d == Detect(osd, 0)
       IN  osd' = [osd EXCEPT
                     !.pc = IF osd.K = 0 THEN "done" ELSE "up",
                     !.val = IF osd.rich THEN BaseSays(osd) ELSE d.val,
                     !.asked = IF osd.rich THEN @ ELSE @ \cup d.asked]
    /\ UNCHANGED osOthers

\* Back in OS(ctx, m) with m the Router above: sh.os holds the value from
\* below; if os := osm.OS(ctx); os != "" { return os }, else detectOS(ctx, m).
OsReturn ==
    /\ osd.phase = "run"
    /\ osd.pc = "up"
    /\ LET l == osd.layer + 1
           d == Detect(osd, l)
       IN  osd' = [osd EXCEPT
                     !.layer = l,
                     !.pc = IF l = osd.K THEN "done" ELSE "up",
                     !.val = IF osd.val # "" THEN @ ELSE d.val,
                     !.asked = IF osd.val # "" THEN @ ELSE @ \cup d.asked]
    /\ UNCHANGED osOthers

InitOS ==
    /\ mach = [kind |-> "plain", probed |-> FALSE, coreOS |-> FALSE]
    /\ executed = {}
    /\ wrap = NoWrap
    /\ unit = NoUnit
    /\ drain = "none"
    /\ readCh = <<>>
    /\ sent = 0
    /\ pc = [c \in Callers |-> "idle"]
    /\ call = [c \in Callers |-> NoCall]
    /\ reg = [c \in Callers |-> NoReg]
    /\ ret = [c \in Callers |-> NoRet]
    /\ calls = 0
    /\ firstOp = "none"
    /\ used = FALSE
    /\ closeRet = FALSE
    /\ drainVal = "none"
    /\ cp = CopyIdle
    /\ sh = ShIdle
    /\ pr = ProbeIdle
    /\ rtr = RouteIdle
    /\ nfd = NfIdle
    /\ mck = MockIdle
    /\ env = EnvIdle
    /\ trc = TraceIdle
    /\ cer = CerIdle
    /\ mq = QueueIdle
    /\ \E what \in {"OS", "Arch"}, K \in 0..MaxLayers :
          \E rg \in [Layers(K) -> BOOLEAN], fb \in [Layers(K) -> BOOLEAN],
             rich \in BOOLEAN, baseAns \in Answers, quiet \in BOOLEAN :
              /\ quiet => (what = "OS" /\ ~rich /\ baseAns = NilErr)
              /\ osd = OsStart(what, K, rg, fb, rich, baseAns, quiet)

NextOS ==
    \/ OsDescend
    \/ OsBase
    \/ OsReturn

SpecOS == InitOS /\ [][NextOS]_vars

\* --------------------------------------------------------------- NotFound
\* One call NotFound(err).  err is a chain of errors, each wrapping the next:
\* a node is a command Error with its Code, or any other error; the Err of a
\* command Error is the next node of the chain, and nil when it is the last.
\* The empty chain is the nil error.
nfOthers == <<mach, executed, wrap, unit, drain, readCh, sent, pc, call, reg, ret,
              calls, firstOp, used, closeRet, drainVal, cp, sh, pr, rtr, mck, env, trc, osd, cer, mq>>

Plain    == [cmd |-> FALSE, code |-> 0]     \* fmt.Errorf("..."), errors.New
CmdErr(c) == [cmd |-> TRUE, code |-> c]     \* &Error{Code: c, Err: the next node}
Nodes    == {Plain, CmdErr(0), CmdErr(1), CmdErr(127)}

RECURSIVE ChainsOf(_)
ChainsOf(n) ==
    IF n = 0 THEN {<<>>}
    ELSE LET shorter == ChainsOf(n - 1)
         IN  shorter \cup {<<x>> \o ch : x \in Nodes, ch \in {c \in shorter : Len(c) = n - 1}}

Chains == ChainsOf(MaxChain)

RECURSIVE ErrorsAs(_)
\* errors.As(err, &cmdErr): the first command Error met on the way down the
\* chain, as NotFound reads it; cmdErr is FALSE when there is none.
ErrorsAs(chain) ==
    IF chain = <<>> THEN NilErr
    ELSE IF Head(chain).cmd
         THEN [cmdErr |-> TRUE, errSet |-> Len(chain) > 1, code |-> Head(chain).code]
    ELSE LET rest == ErrorsAs(Tail(chain))
         IN  IF rest.cmdErr THEN rest
             ELSE [cmdErr |-> FALSE, errSet |-> TRUE, code |-> 0]

NfStart == [phase |-> "run", pc |-> "make", from |-> "none", chain |-> <<>>,
            res |-> FALSE]

\* Sh.command on a strict Router for a name that is not registered:
\* Fail(&Error{Err: fmt.Errorf("command not found: %s", cmdName)}).
NfRouterError ==
    /\ nfd.phase = "run"
    /\ nfd.pc = "make"
    /\ nfd' = [nfd EXCEPT !.pc = "call", !.from = "router",
                          !.chain = <<CmdErr(0), Plain>>]
    /\ UNCHANGED nfOthers

\* A registered handler that fails plainly: Fail(fmt.Errorf("regular error")).
NfHandlerError ==
    /\ nfd.phase = "run"
    /\ nfd.pc = "make"
    /\ nfd' = [nfd EXCEPT !.pc = "call", !.from = "handler", !.chain = <<Plain>>]
    /\ UNCHANGED nfOthers

\* Any other error, nil included.
NfAnyError ==
    /\ nfd.phase = "run"
    /\ nfd.pc = "make"
    /\ \E ch \in Chains :
          nfd' = [nfd EXCEPT !.pc = "call", !.from = "any", !.chain = ch]
    /\ UNCHANGED nfOthers

\* fmt.Errorf("wrapped: %w", err) before the error is classified.
NfWrap ==
    /\ nfd.phase = "run"
    /\ nfd.pc = "call"
    /\ nfd.chain # <<>>
    /\ Len(nfd.chain) < MaxChain
    /\ nfd' = [nfd EXCEPT !.chain = <<Plain>> \o @]
    /\ UNCHANGED nfOthers

\* A NotFound that looks at the code alone.
NfCallCodeOnly ==
    /\ nfd.phase = "run"
    /\ nfd.pc = "call"
    /\ nfd' = [nfd EXCEPT !.pc = "done",
                          !.res = (ErrorsAs(nfd.chain).cmdErr
                                      /\ ErrorsAs(nfd.chain).code = 0)]
    /\ UNCHANGED nfOthers

\* NotFound(err)
NfCall ==
    /\ nfd.phase = "run"
    /\ nfd.pc = "call"
    /\ nfd' = [nfd EXCEPT !.pc = "done", !.res = NotFound(ErrorsAs(nfd.chain))]
    /\ UNCHANGED nfOthers

InitNotFound ==
    /\ mach = [kind |-> "plain", probed |-> FALSE, coreOS |-> FALSE]
    /\ executed = {}
    /\ wrap = NoWrap
    /\ unit = NoUnit
    /\ drain = "none"
    /\ readCh = <<>>
    /\ sent = 0
    /\ pc = [c \in Callers |-> "idle"]
    /\ call = [c \in Callers |-> NoCall]
    /\ reg = [c \in Callers |-> NoReg]
    /\ ret = [c \in Callers |-> NoRet]
    /\ calls = 0
    /\ firstOp = "none"
    /\ used = FALSE
    /\ closeRet = FALSE
    /\ drainVal = "none"
    /\ cp = CopyIdle
    /\ sh = ShIdle
    /\ pr = ProbeIdle
    /\ rtr = RouteIdle
    /\ nfd = NfStart
    /\ mck = MockIdle
    /\ env = EnvIdle
    /\ trc = TraceIdle
    /\ osd = OsIdle
    /\ cer = CerIdle
    /\ mq = QueueIdle

NextNotFound ==
    \/ NfRouterError
    \/ NfHandlerError
    \/ NfAnyError
    \/ NfWrap
    \/ NfCall

SpecNotFound == InitNotFound /\ [][NextNotFound]_vars

\* ------------------------------------------------------------------- mock
\* A mock Machine whose commands are stages of a pipeline.  Each command k
\* is used by two edges of Copy at once: the edge upstream of it writes its
\* input and then closes it (mockCmd.Write, mockCmd.Close), the edge
\* downstream reads it to the end of its stream (mockCmd.Read).  Close and
\* the Read that meets the end both call recordCall, whose critical sections
\* are the steps below: the mockCmd's own lock is released before the
\* machine's is taken.
mockOthers == <<mach, executed, wrap, unit, drain, readCh, sent, pc, call, reg, ret,
                calls, firstOp, used, closeRet, drainVal, cp, sh, pr, rtr, nfd, env, trc, osd, cer, mq>>

Cmds  == 1..MaxCmds
Roles == {"up", "down"}

\* &mockCmd{...}: nothing written, not recorded, callIndex 0.
NewMockCmd == [input |-> 0, got |-> 0, recorded |-> FALSE, callIndex |-> 0]

NoTask == [pc |-> "start", snap |-> 0, idx |-> 0]

MockStart ==
    [phase |-> "run",
     Calls |-> <<>>,
     cmd   |-> [k \in Cmds |-> NewMockCmd],
     task  |-> [k \in Cmds |-> [r \in Roles |-> NoTask]],
     lost  |-> {}]

\* mockCmd.Write: c.input = append(c.input, p...), under the command's lock;
\* the edge then closes the command, and mockCmd.Close calls recordCall.
MockWrite(k) ==
    /\ mck.phase = "run"
    /\ mck.task[k]["up"].pc = "start"
    /\ mck' = [mck EXCEPT !.cmd[k].input = @ + 1,
                          !.task[k]["up"].pc = "call"]
    /\ UNCHANGED mockOthers

\* mockCmd.Read meets the end of the command's output and calls recordCall.
MockReadEnd(k) ==
    /\ mck.phase = "run"
    /\ mck.task[k]["down"].pc = "start"
    /\ mck' = [mck EXCEPT !.task[k]["down"].pc = "call"]
    /\ UNCHANGED mockOthers

\* recordCall, under the command's lock: the input is copied into the call,
\* the call is copied, and the recorded flag is read and set.
RecordLock(k, r) ==
    /\ mck.phase = "run"
    /\ mck.task[k][r].pc = "call"
    /\ LET c   == mck.cmd[k]
           got == IF c.input > 0 THEN c.input ELSE c.got
       IN  mck' = [mck EXCEPT
                     !.cmd[k].got = got,
                     !.cmd[k].recorded = TRUE,
                     !.task[k][r] = [pc   |-> IF c.recorded THEN "store" ELSE "append",
                                     snap |-> got,
                                     idx  |-> c.callIndex]]
    /\ UNCHANGED mockOthers

\* recordCall, recorded before: c.machine.Calls[callIndex] = call, under the
\* machine's lock.  An index outside Calls panics.
RecordStore(k, r) ==
    /\ mck.phase = "run"
    /\ mck.task[k][r].pc = "store"
    /\ LET t == mck.task[k][r]
       IN  IF t.idx + 1 > Len(mck.Calls)
           THEN mck' = [mck EXCEPT !.phase = "panic"]
           ELSE mck' = [mck EXCEPT
                          !.Calls[t.idx + 1] = [cmd |-> k, got |-> t.snap],
                          !.lost = IF mck.Calls[t.idx + 1].cmd # k
                                   THEN @ \cup {mck.Calls[t.idx + 1].cmd} ELSE @,
                          !.task[k][r].pc = "done"]
    /\ UNCHANGED mockOthers

\* recordCall, first record: Calls = append(Calls, call) and
\* callIndex := len(Calls) - 1, under the machine's lock.
RecordAppend(k, r) ==
    /\ mck.phase = "run"
    /\ mck.task[k][r].pc = "append"
    /\ mck' = [mck EXCEPT
                 !.Calls = Append(@, [cmd |-> k, got |-> mck.task[k][r].snap]),
                 !.task[k][r].pc = "index",
                 !.task[k][r].idx = Len(mck.Calls)]
    /\ UNCHANGED mockOthers

\* recordCall, first record: c.callIndex = callIndex, under the command's
\* lock again.
RecordIndex(k, r) ==
    /\ mck.phase = "run"
    /\ mck.task[k][r].pc = "index"
    /\ mck' = [mck EXCEPT !.cmd[k].callIndex = mck.task[k][r].idx,
                          !.task[k][r].pc = "done"]
    /\ UNCHANGED mockOthers

InitMock ==
    /\ mach = [kind |-> "plain", probed |-> FALSE, coreOS |-> FALSE]
    /\ executed = {}
    /\ wrap = NoWrap
    /\ unit = NoUnit
    /\ drain = "none"
    /\ readCh = <<>>
    /\ sent = 0
    /\ pc = [c \in Callers |-> "idle"]
    /\ call = [c \in Callers |-> NoCall]
    /\ reg = [c \in Callers |-> NoReg]
    /\ ret = [c \in Callers |-> NoRet]
    /\ calls = 0
    /\ firstOp = "none"
    /\ used = FALSE
    /\ closeRet = FALSE
    /\ drainVal = "none"
    /\ cp = CopyIdle
    /\ sh = ShIdle
    /\ pr = ProbeIdle
    /\ rtr = RouteIdle
    /\ nfd = NfIdle
    /\ mck = MockStart
    /\ env = EnvIdle
    /\ trc = TraceIdle
    /\ osd = OsIdle
    /\ cer = CerIdle
    /\ mq = QueueIdle

NextMock ==
    \E k \in Cmds :
        \/ MockWrite(k)
        \/ MockReadEnd(k)
        \/ \E r \in Roles :
              \/ RecordLock(k, r)
              \/ RecordStore(k, r)
              \/ RecordAppend(k, r)
              \/ RecordIndex(k, r)

SpecMock == InitMock /\ [][NextMock]_vars

\* ------------------------------------------------------------ environment
\* A program that derives contexts with WithEnv, WithoutEnv and UnsetEnv and
\* reads variables with Env.  env.maps is the heap of map objects, env.ctx[i]
\* the map that context i holds under envKey (0: none or nil); context 1 is
\* the background context.  A map is a function from Keys to a value or
\* Absent.  env.m is the machine Env falls back to.
envOthers == <<mach, executed, wrap, unit, drain, readCh, sent, pc, call, reg, ret,
               calls, firstOp, used, closeRet, drainVal, cp, sh, pr, rtr, nfd, mck, trc, osd, cer, mq>>

Keys   == {"A", "B"}
Absent == "absent"

NilMap == [k \in Keys |-> Absent]

\* The maps a program passes to WithEnv.
EnvArgs ==
    { [NilMap EXCEPT !["A"] = "1"],
      [NilMap EXCEPT !["A"] = "2", !["B"] = "3"],
      [NilMap EXCEPT !["B"] = ""],
      NilMap }

\* Envs(ctx): the map ctx holds, nil when it holds none.
Envs(e, i) == IF e.ctx[i] = 0 THEN NilMap ELSE e.maps[e.ctx[i]]

\* maps.Copy(val, new): the entries of new replace or extend those of val.
MapsCopy(val, new) == [k \in Keys |-> IF new[k] # Absent THEN new[k] ELSE val[k]]

\* A WithEnv that writes the new entries into the map the parent holds.
WithEnvShared(e, i, new) ==
    IF e.ctx[i] = 0
    THEN [e EXCEPT !.maps = Append(@, MapsCopy(NilMap, new)),
                   !.ctx = Append(@, Len(e.maps) + 1)]
    ELSE [e EXCEPT !.maps[e.ctx[i]] = MapsCopy(@, new),
                   !.ctx = Append(@, e.ctx[i])]

\* WithEnv(ctx, env): val := maps.Clone(Envs(ctx)), a new map when that is
\* nil; maps.Copy(val, env); context.WithValue(ctx, envKey{}, val).
WithEnv(e, i, new) ==
    [e EXCEPT !.maps = Append(@, MapsCopy(Envs(e, i), new)),
              !.ctx = Append(@, Len(e.maps) + 1)]

\* WithoutEnv(ctx): ctx itself when Envs(ctx) is nil, else
\* context.WithValue(ctx, envKey{}, nil).
WithoutEnv(e, i) == [e EXCEPT !.ctx = Append(@, 0)]

\* UnsetEnv(ctx, name): ctx itself when Envs(ctx) is nil; else a clone
\* without name, nil when nothing is left.
UnsetEnv(e, i, name) ==
    IF e.ctx[i] = 0 THEN [e EXCEPT !.ctx = Append(@, 0)]
    ELSE LET val == [Envs(e, i) EXCEPT ![name] = Absent]
         IN  IF val = NilMap THEN [e EXCEPT !.ctx = Append(@, 0)]
             ELSE [e EXCEPT !.maps = Append(@, val),
                            !.ctx = Append(@, Len(e.maps) + 1)]

\* An Env that takes an empty value in the context for a missing one.
EnvLookupNonEmpty(e, i, key) ==
    IF Envs(e, i)[key] \notin {Absent, ""}
    THEN [found |-> TRUE, val |-> Envs(e, i)[key]]
    ELSE [found |-> FALSE, val |-> ""]

\* Env: if env := Envs(ctx); env != nil { if val, ok := env[key]; ok { return val } }
EnvLookup(e, i, key) ==
    IF Envs(e, i)[key] # Absent
    THEN [found |-> TRUE, val |-> Envs(e, i)[key]]
    ELSE [found |-> FALSE, val |-> ""]

\* Env, the key not in the context: OS(ctx, m), then the probes of that
\* system; the commands sent to the machine and the value returned.  A
\* machine that is no OSMachine is asked for its OS with uname, and with
\* cmd /c ver when that fails, as it does on Windows.  printenv
\* fails for a variable that is not set; PowerShell prints nothing for one,
\* and cmd echoes the %KEY% it was given.
EnvQuery(mm, key) ==
    LET set   == mm.vars[key] # Absent
        val   == IF set THEN mm.vars[key] ELSE ""
        uname == IF mm.rich THEN <<>>
                 ELSE IF mm.os = "windows" THEN <<"uname", "ver">> ELSE <<"uname">>
    IN  IF mm.os = "windows"
        THEN IF mm.ps /\ val # ""
             THEN [cmds |-> uname \o <<"powershell">>, val |-> val]
             ELSE [cmds |-> uname \o <<"powershell", "cmd">>, val |-> val]
        ELSE [cmds |-> uname \o <<"printenv">>, val |-> val]

NoEnvLast == [op |-> "none", ctx |-> 0, arg |-> NilMap, key |-> "",
              before |-> NilMap, val |-> "", cmds |-> <<>>]

EnvStart(mm) ==
    [phase |-> "run", maps |-> <<>>, ctx |-> <<0>>, m |-> mm, last |-> NoEnvLast]

\* ctx2 := WithEnv(ctx, env)
EvWithEnv ==
    /\ env.phase = "run"
    /\ Len(env.ctx) <= MaxCtx
    /\ \E i \in 1..Len(env.ctx), new \in EnvArgs :
          env' = [WithEnv(env, i, new) EXCEPT
                    !.last = [NoEnvLast EXCEPT !.op = "WithEnv", !.ctx = i,
                                               !.arg = new, !.before = Envs(env, i)]]
    /\ UNCHANGED envOthers

\* ctx2 := WithoutEnv(ctx)
EvWithoutEnv ==
    /\ env.phase = "run"
    /\ Len(env.ctx) <= MaxCtx
    /\ \E i \in 1..Len(env.ctx) :
          env' = [WithoutEnv(env, i) EXCEPT
                    !.last = [NoEnvLast EXCEPT !.op = "WithoutEnv", !.ctx = i,
                                               !.before = Envs(env, i)]]
    /\ UNCHANGED envOthers

\* ctx2 := UnsetEnv(ctx, name)
EvUnsetEnv ==
    /\ env.phase = "run"
    /\ Len(env.ctx) <= MaxCtx
    /\ \E i \in 1..Len(env.ctx), name \in Keys :
          env' = [UnsetEnv(env, i, name) EXCEPT
                    !.last = [NoEnvLast EXCEPT !.op = "UnsetEnv", !.ctx = i,
                                               !.key = name, !.before = Envs(env, i)]]
    /\ UNCHANGED envOthers

\* Env(ctx, m, key)
EvEnv ==
    /\ env.phase = "run"
    /\ \E i \in 1..Len(env.ctx), key \in Keys :
          LET l == EnvLookup(env, i, key)
              q == EnvQuery(env.m, key)
          IN  env' = [env EXCEPT
                        !.last = [NoEnvLast EXCEPT
                                    !.op = "Env", !.ctx = i, !.key = key,
                                    !.before = Envs(env, i),
                                    !.val = IF l.found THEN l.val ELSE q.val,
                                    !.cmds = IF l.found THEN <<>> ELSE q.cmds]]
    /\ UNCHANGED envOthers

EnvMachines ==
    {[os |-> o, rich |-> r, ps |-> p, vars |-> [NilMap EXCEPT !["A"] = a]] :
        o \in {"linux", "windows"}, r \in BOOLEAN, p \in BOOLEAN, a \in {Absent, "9"}}

InitEnv ==
    /\ mach = [kind |-> "plain", probed |-> FALSE, coreOS |-> FALSE]
    /\ executed = {}
    /\ wrap = NoWrap
    /\ unit = NoUnit
    /\ drain = "none"
    /\ readCh = <<>>
    /\ sent = 0
    /\ pc = [c \in Callers |-> "idle"]
    /\ call = [c \in Callers |-> NoCall]
    /\ reg = [c \in Callers |-> NoReg]
    /\ ret = [c \in Callers |-> NoRet]
    /\ calls = 0
    /\ firstOp = "none"
    /\ used = FALSE
    /\ closeRet = FALSE
    /\ drainVal = "none"
    /\ cp = CopyIdle
    /\ sh = ShIdle
    /\ pr = ProbeIdle
    /\ rtr = RouteIdle
    /\ nfd = NfIdle
    /\ mck = MockIdle
    /\ \E mm \in EnvMachines : (mm.ps => mm.os = "windows") /\ env = EnvStart(mm)
    /\ trc = TraceIdle
    /\ osd = OsIdle
    /\ cer = CerIdle
    /\ mq = QueueIdle

NextEnv ==
    \/ EvWithEnv
    \/ EvWithoutEnv
    \/ EvUnsetEnv
    \/ EvEnv

SpecEnv == InitEnv /\ [][NextEnv]_vars

\* ------------------------------------------------------------------ Trace
\* A program that creates commands and runs them, some through Exec, Read or
\* Do and some through m.Command or NewReader (NewWriter and NewStream call
\* m.Command as NewReader does), while the package variable Trace is assigned.  trc.Trace is the writer Trace
\* holds, trc.out what each writer has received, trc.units the commands.
traceOthers == <<mach, executed, wrap, unit, drain, readCh, sent, pc, call, reg, ret,
                 calls, firstOp, used, closeRet, drainVal, cp, sh, pr, rtr, nfd, mck, env, osd, cer, mq>>

Sinks    == {"Discard", "Stdout"}
Helpers  == {"Exec", "Read", "Do"}
Direct   == {"Command", "NewReader"}
NL       == "\n"

\* What the String method of a command returns, as a sequence of characters.
Strings == {<<"e", NL>>, <<NL>>, <<>>}

\* The commands a machine returns: one with a String method and what it
\* returns, or one without.
UnitKinds ==
    {[stringer |-> TRUE, str |-> x] : x \in Strings} \cup {[stringer |-> FALSE, str |-> <<>>]}

\* strings.TrimRight(s, "\n")
RECURSIVE TrimRight(_)
TrimRight(x) ==
    IF x # <<>> /\ x[Len(x)] = NL THEN TrimRight(SubSeq(x, 1, Len(x) - 1)) ELSE x

\* The text trace hands to Fprintf, <<>> when it writes nothing: String()
\* without its trailing newlines and a newline, and the %v rendering of a
\* command that has no String method.
TraceLine(k) ==
    IF k.stringer
    THEN IF TrimRight(k.str) # <<>> THEN TrimRight(k.str) \o <<NL>> ELSE <<>>
    ELSE <<"%v", NL>>

\* A trace that writes to the writer Trace held when the program started.
traceCached(t, i) ==
    LET line == TraceLine(t.units[i].kind)
    IN  IF line = <<>> THEN t.out
        ELSE [t.out EXCEPT !["Discard"] = Append(@, [unit |-> i, text |-> line])]

\* trace(buf): fmt.Fprintf(Trace, ...), Trace read at the call.
trace(t, i) ==
    LET line == TraceLine(t.units[i].kind)
    IN  IF line = <<>> THEN t.out
        ELSE [t.out EXCEPT ![t.Trace] = Append(@, [unit |-> i, text |-> line])]

TraceStart ==
    [phase |-> "run", Trace |-> "Discard", out |-> [w \in Sinks |-> <<>>], units |-> <<>>]

\* command.Trace = w
TrSetTrace(w) ==
    /\ trc.phase = "run"
    /\ w # trc.Trace
    /\ trc' = [trc EXCEPT !.Trace = w]
    /\ UNCHANGED traceOthers

\* r := m.Command(ctx, args...), in Exec, Read, Do, NewReader or the program
\* itself.
TrCommand(via, k) ==
    /\ trc.phase = "run"
    /\ Len(trc.units) < MaxUnits
    /\ trc' = [trc EXCEPT !.units = Append(@, [via |-> via, kind |-> k, pos |-> "created",
                                               at |-> "none"])]
    /\ UNCHANGED traceOthers

\* trace(r), the next statement of Exec, Read and Do.
TrTrace(i) ==
    /\ trc.phase = "run"
    /\ i \in 1..Len(trc.units)
    /\ trc.units[i].via \in Helpers
    /\ trc.units[i].pos = "created"
    /\ trc' = [trc EXCEPT !.out = trace(trc, i),
                          !.units[i].pos = "traced",
                          !.units[i].at = trc.Trace]
    /\ UNCHANGED traceOthers

\* The first Read or Write of the command: exec(r), io.ReadAll(r) and
\* io.Copy(io.Discard, r) in Exec, Read and Do, after trace; the first
\* operation on the value NewReader or m.Command returned.
TrFirstIO(i) ==
    /\ trc.phase = "run"
    /\ i \in 1..Len(trc.units)
    /\ \/ trc.units[i].via \in Helpers /\ trc.units[i].pos = "traced"
       \/ trc.units[i].via \in Direct /\ trc.units[i].pos = "created"
    /\ trc' = [trc EXCEPT !.units[i].pos = "started"]
    /\ UNCHANGED traceOthers

InitTrace ==
    /\ mach = [kind |-> "plain", probed |-> FALSE, coreOS |-> FALSE]
    /\ executed = {}
    /\ wrap = NoWrap
    /\ unit = NoUnit
    /\ drain = "none"
    /\ readCh = <<>>
    /\ sent = 0
    /\ pc = [c \in Callers |-> "idle"]
    /\ call = [c \in Callers |-> NoCall]
    /\ reg = [c \in Callers |-> NoReg]
    /\ ret = [c \in Callers |-> NoRet]
    /\ calls = 0
    /\ firstOp = "none"
    /\ used = FALSE
    /\ closeRet = FALSE
    /\ drainVal = "none"
    /\ cp = CopyIdle
    /\ sh = ShIdle
    /\ pr = ProbeIdle
    /\ rtr = RouteIdle
    /\ nfd = NfIdle
    /\ mck = MockIdle
    /\ env = EnvIdle
    /\ trc = TraceStart
    /\ osd = OsIdle
    /\ cer = CerIdle
    /\ mq = QueueIdle

NextTrace ==
    \/ \E w \in Sinks : TrSetTrace(w)
    \/ \E via \in Helpers \cup Direct, k \in UnitKinds : TrCommand(via, k)
    \/ \E i \in 1..MaxUnits : TrTrace(i)
    \/ \E i \in 1..MaxUnits : TrFirstIO(i)

SpecTrace == InitTrace /\ [][NextTrace]_vars

\* ---------------------------------------------------------- Copy, bounded
\* Copy over interior stages that hold a bounded amount of input, as trCmd
\* does with its two io.Pipes and the one chunk its goroutine carries: a
\* Write into a stage returns only when the stage has room, and the stage
\* has room again only when its output is read.  Every interior stage ends
\* its output once its input is closed.  cp.plan names the one failure of
\* the run, if any: the edge, whether its reader or its writer fails, and
\* the number of chunks it copies before.
StageCap == 1

NoPlan == [edge |-> 0 - 1, kind |-> "none", after |-> 0]

\* Edge i's Write does not block: the sink takes everything, a stage only
\* while it holds less than StageCap chunks that nobody has read.
CanWrite(i) == i = cp.M \/ Len(cp.buf[i + 1]) < StageCap

\* The planned failure is due at edge i's next Read or Write.
Due(i, kind) == cp.plan.edge = i /\ cp.plan.kind = kind /\ cp.n[i] = cp.plan.after

PipeCopyChunk(i) ==
    /\ Running(i)
    /\ ~Due(i, "read")
    /\ ~Due(i, "write")
    /\ CanWrite(i)
    /\ EdgeCopyChunk(i)

PipeCopyEnd(i) ==
    /\ Running(i)
    /\ ~Due(i, "read")
    /\ EdgeCopyEnd(i)

\* The planned failure: of the reader at its next Read, or of the writer at
\* the next Write that does not block.
PipeCopyFail(i) ==
    /\ Running(i)
    /\ cp.task[i] = "copy"
    /\ \/ /\ Due(i, "read")
          /\ cp' = [cp EXCEPT !.task[i] = "close", !.err[i] = {ReadCause(i)}]
       \/ /\ Due(i, "write")
          /\ Available(i) > 0
          /\ CanWrite(i)
          /\ cp' = [Take(i) EXCEPT !.task[i] = "close", !.err[i] = {WriteCause(i)}]
    /\ UNCHANGED wrapVars

PipeTask(i) ==
    \/ PipeCopyChunk(i)
    \/ PipeCopyEnd(i)
    \/ PipeCopyFail(i)
    \/ EdgeClose(i)

InitCopyPipe ==
    /\ mach = [kind |-> "plain", probed |-> FALSE, coreOS |-> FALSE]
    /\ executed = {}
    /\ wrap = NoWrap
    /\ unit = NoUnit
    /\ drain = "none"
    /\ readCh = <<>>
    /\ sent = 0
    /\ pc = [c \in Callers |-> "idle"]
    /\ call = [c \in Callers |-> NoCall]
    /\ reg = [c \in Callers |-> NoReg]
    /\ ret = [c \in Callers |-> NoRet]
    /\ calls = 0
    /\ firstOp = "none"
    /\ used = FALSE
    /\ closeRet = FALSE
    /\ drainVal = "none"
    /\ sh = ShIdle
    /\ pr = ProbeIdle
    /\ RestIdle
    /\ \E M \in 1..(MaxMid + 1), d \in 0..(MaxData + 2), sinkCloses \in BOOLEAN,
          plan \in {NoPlan} \cup [edge : 0..(MaxMid + 1), kind : {"read", "write"},
                                  after : 0..1] :
          /\ plan.edge <= M
          /\ cp = CopyStart(M, d, (1..M) \cup (IF sinkCloses THEN {M + 1} ELSE {}), "upper")
                     @@ [plan |-> plan]

NextCopyPipe ==
    \/ \E i \in 0..(MaxMid + 1) : PipeTask(i)
    \/ CopyReturn

SpecCopyPipe == InitCopyPipe /\ [][NextCopyPipe]_vars

\* The tasks are goroutines: each one that can take a step eventually does.
SpecCopyPipeFair ==
    /\ InitCopyPipe
    /\ [][NextCopyPipe]_vars
    /\ \A i \in 0..(MaxMid + 1) : WF_vars(PipeTask(i))
    /\ WF_vars(CopyReturn)

\* -------------------------------------------------------------- copyError
\* The results of one Copy and the text copyError.Error makes of them.  Edge
\* i's task ends with an error of its io.Copy or none (its reader's: that of
\* a Write is rendered alike) and an error of its Close or none, in any order
\* among the tasks.  cer.str holds the readers
\* that have a String method.  A text is a sequence of tokens.
cerOthers == <<mach, executed, wrap, unit, drain, readCh, sent, pc, call, reg, ret,
               calls, firstOp, used, closeRet, drainVal, cp, sh, pr, rtr, nfd, mck, env,
               trc, osd, mq>>

Tok(t, i) == [t |-> t, i |-> i]
TNL       == Tok("\n", 0)
TTAB      == Tok("\t", 0)
TSuccess  == Tok("<success>", 0)

\* cmdString(v): v.String() when v is a fmt.Stringer, else "<%T>".
cmdString(str, i) ==
    IF i \in str THEN <<Tok("String", i)>>
    ELSE <<Tok("<", 0), Tok("%T", i), Tok(">", 0)>>

\* err.Error() of a result: the text of the one error, and of
\* errors.Join(err, closeErr) the texts of both with a newline between.
ErrText(i, err) ==
    LET first == IF ReadCause(i) \in err THEN <<Tok("read", i)>>
                 ELSE IF WriteCause(i) \in err THEN <<Tok("write", i)>> ELSE <<>>
        close == IF CloseCause(i) \in err THEN <<Tok("close", i)>> ELSE <<>>
    IN  IF first # <<>> /\ close # <<>> THEN first \o <<TNL>> \o close
        ELSE first \o close

\* strings.ReplaceAll(s, "\n", "\n\t")
RECURSIVE ReplaceAll(_)
ReplaceAll(x) ==
    IF x = <<>> THEN <<>>
    ELSE IF Head(x) = TNL THEN <<TNL, TTAB>> \o ReplaceAll(Tail(x))
         ELSE <<Head(x)>> \o ReplaceAll(Tail(x))

\* A part whose error text is appended as it is.
PartPlain(r, i) ==
    IF r.err # {} THEN r.cmd \o <<TNL, TTAB>> \o ErrText(i, r.err)
    ELSE r.cmd \o <<TNL, TTAB, TSuccess>>

\* copyError.Error, one part: the cmd, then the error text with every line
\* indented, or <success>.
Part(r, i) ==
    IF r.err # {} THEN r.cmd \o <<TNL, TTAB>> \o ReplaceAll(ErrText(i, r.err))
    ELSE r.cmd \o <<TNL, TTAB, TSuccess>>

\* strings.Join(parts, "\n\n") over the results in index order.
RECURSIVE JoinParts(_, _, _)
JoinParts(results, i, M) ==
    IF i > M THEN <<>>
    ELSE Part(results[i], i) \o (IF i < M THEN <<TNL, TNL>> ELSE <<>>)
         \o JoinParts(results, i + 1, M)

\* copyError.Error()
CopyErrorError(results, M) == JoinParts(results, 0, M)

NoCopyResult == [set |-> FALSE, cmd |-> <<>>, err |-> {}]

CerStart(M, str) ==
    [phase   |-> "run",
     M       |-> M,
     str     |-> str,
     results |-> [i \in Edges(M) |-> NoCopyResult],
     order   |-> <<>>,
     waitErr |-> {},
     pc      |-> "wait",
     text    |-> <<>>]

\* Edge i's task returns: results.set(i+1, copyResult{cmd: cmdString(r),
\* err: errors.Join(err, closeErr)}), and err goes to the group.
CerTaskEnd(i) ==
    /\ cer.phase = "run"
    /\ i \in Edges(cer.M)
    /\ ~cer.results[i].set
    /\ \E err \in {{}, {ReadCause(i)}}, ce \in {{}, {CloseCause(i)}} :
          cer' = [cer EXCEPT
                    !.results[i] = [set |-> TRUE, cmd |-> cmdString(cer.str, i),
                                    err |-> ErrorsJoin(err, ce)],
                    !.order = Append(@, i),
                    !.waitErr = GroupError(@, err)]
    /\ UNCHANGED cerOthers

\* err = g.Wait(): every task has returned; Copy returns the copyError when
\* err is not nil.
CerWait ==
    /\ cer.phase = "run"
    /\ cer.pc = "wait"
    /\ \A i \in Edges(cer.M) : cer.results[i].set
    /\ cer' = [cer EXCEPT !.pc = IF cer.waitErr # {} THEN "failed" ELSE "ok"]
    /\ UNCHANGED cerOthers

\* err.Error() on the error Copy returned.
CerError ==
    /\ cer.phase = "run"
    /\ cer.pc = "failed"
    /\ cer' = [cer EXCEPT !.pc = "rendered",
                          !.text = CopyErrorError(cer.results, cer.M)]
    /\ UNCHANGED cerOthers

InitCopyError ==
    /\ mach = [kind |-> "plain", probed |-> FALSE, coreOS |-> FALSE]
    /\ executed = {}
    /\ wrap = NoWrap
    /\ unit = NoUnit
    /\ drain = "none"
    /\ readCh = <<>>
    /\ sent = 0
    /\ pc = [c \in Callers |-> "idle"]
    /\ call = [c \in Callers |-> NoCall]
    /\ reg = [c \in Callers |-> NoReg]
    /\ ret = [c \in Callers |-> NoRet]
    /\ calls = 0
    /\ firstOp = "none"
    /\ used = FALSE
    /\ closeRet = FALSE
    /\ drainVal = "none"
    /\ cp = CopyIdle
    /\ sh = ShIdle
    /\ pr = ProbeIdle
    /\ rtr = RouteIdle
    /\ nfd = NfIdle
    /\ mck = MockIdle
    /\ env = EnvIdle
    /\ trc = TraceIdle
    /\ osd = OsIdle
    /\ mq = QueueIdle
    /\ \E M \in 0..MaxStages, str \in SUBSET Edges(MaxStages) :
          /\ str \subseteq Edges(M)
          /\ cer = CerStart(M, str)

NextCopyError ==
    \/ \E i \in 0..MaxStages : CerTaskEnd(i)
    \/ CerWait
    \/ CerError

SpecCopyError == InitCopyError /\ [][NextCopyError]_vars

\* ------------------------------------------------------------- mock queue
\* One argument pattern of a mock machine: the readers Return queued for it
\* (mq.readers, by their number in the order of the Return calls), what was
\* captured for replay, and the invocation in flight: Command hands out a
\* mockCmd, and reading it to its end is a later step, so a Return can come
\* between the two.  Reader r holds the one chunk r and ends with io.EOF, or
\* fails at once as iotest.ErrReader does.
queueOthers == <<mach, executed, wrap, unit, drain, readCh, sent, pc, call, reg, ret,
                 calls, firstOp, used, closeRet, drainVal, cp, sh, pr, rtr, nfd, mck, env,
                 trc, osd, cer>>

NoCaptured == [ok |-> FALSE, bytes |-> <<>>]
NoCmd      == [kind |-> "none", r |-> 0, bytes |-> <<>>, made |-> 0]

QueueStart ==
    [phase    |-> "run",
     made     |-> 0,             \* readers Return has been given so far
     fails    |-> {},            \* those of them that fail
     pos      |-> <<>>,          \* chunks each has given
     readers  |-> <<>>,          \* resp.readers
     captured |-> NoCaptured,    \* m.captured[key]
     cur      |-> NoCmd,         \* the mockCmd not yet read to its end
     inflight |-> FALSE,         \* history: a Return came while cur was unread
     log      |-> <<>>]          \* history: what every invocation gave

\* Return(reader, arg...): with a captured output the queue becomes the new
\* reader alone and the capture is dropped, else the reader is appended.
MqReturn(fail) ==
    /\ mq.phase = "run"
    /\ mq.made < MaxReturn
    /\ LET r == mq.made + 1
       IN  mq' = [mq EXCEPT
                    !.made = r,
                    !.fails = IF fail THEN @ \cup {r} ELSE @,
                    !.pos = Append(@, 0),
                    !.readers = IF mq.captured.ok THEN <<r>> ELSE Append(@, r),
                    !.captured = NoCaptured,
                    !.inflight = @ \/ mq.cur.kind # "none"]
    /\ UNCHANGED queueOthers

\* The queue handler: with more than one reader the first is taken off the
\* queue and the capture dropped; else the captured bytes are replayed; else
\* the one reader is teed into a capture buffer and stays queued; with
\* nothing queued the command is empty.
MqCommand ==
    /\ mq.phase = "run"
    /\ mq.cur.kind = "none"
    /\ Len(mq.log) < MaxInvoke
    /\ mq' = IF Len(mq.readers) > 1
             THEN [mq EXCEPT !.cur = [kind |-> "pop", r |-> Head(mq.readers), bytes |-> <<>>, made |-> mq.made],
                             !.readers = Tail(@),
                             !.captured = NoCaptured]
             ELSE IF mq.captured.ok
             THEN [mq EXCEPT !.cur = [kind |-> "replay", r |-> 0,
                                      bytes |-> mq.captured.bytes, made |-> mq.made]]
             ELSE IF Len(mq.readers) = 1
             THEN [mq EXCEPT !.cur = [kind |-> "tee", r |-> Head(mq.readers), bytes |-> <<>>, made |-> mq.made]]
             ELSE [mq EXCEPT !.cur = [kind |-> "empty", r |-> 0, bytes |-> <<>>, made |-> mq.made]]
    /\ UNCHANGED queueOthers

\* mockCmd.Read until it returns an error: the bytes the reader still has,
\* then io.EOF or the reader's failure; at io.EOF a teed command stores what
\* it read as the capture.
MqReadAll ==
    /\ mq.phase = "run"
    /\ mq.cur.kind # "none"
    /\ LET c    == mq.cur
           live == c.kind \in {"pop", "tee"}
           bad  == live /\ c.r \in mq.fails
           out  == IF ~live THEN c.bytes
                   ELSE IF bad \/ mq.pos[c.r] > 0 THEN <<>> ELSE <<c.r>>
           end  == IF bad THEN "err" ELSE "EOF"
       IN  mq' = [mq EXCEPT
                    !.cur = NoCmd,
                    !.pos = IF live /\ ~bad THEN [@ EXCEPT ![c.r] = 1] ELSE @,
                    !.captured = IF c.kind = "tee" /\ end = "EOF"
                                 THEN [ok |-> TRUE, bytes |-> out] ELSE @,
                    !.log = Append(@, [kind |-> c.kind, r |-> c.r, out |-> out,
                                       end |-> end, made |-> c.made])]
    /\ UNCHANGED queueOthers

InitQueue ==
    /\ mach = [kind |-> "plain", probed |-> FALSE, coreOS |-> FALSE]
    /\ executed = {}
    /\ wrap = NoWrap
    /\ unit = NoUnit
    /\ drain = "none"
    /\ readCh = <<>>
    /\ sent = 0
    /\ pc = [c \in Callers |-> "idle"]
    /\ call = [c \in Callers |-> NoCall]
    /\ reg = [c \in Callers |-> NoReg]
    /\ ret = [c \in Callers |-> NoRet]
    /\ calls = 0
    /\ firstOp = "none"
    /\ used = FALSE
    /\ closeRet = FALSE
    /\ drainVal = "none"
    /\ cp = CopyIdle
    /\ sh = ShIdle
    /\ pr = ProbeIdle
    /\ rtr = RouteIdle
    /\ nfd = NfIdle
    /\ mck = MockIdle
    /\ env = EnvIdle
    /\ trc = TraceIdle
    /\ osd = OsIdle
    /\ cer = CerIdle
    /\ mq = QueueStart

NextQueue ==
    \/ \E fail \in BOOLEAN : MqReturn(fail)
    \/ MqCommand
    \/ MqReadAll

SpecQueue == InitQueue /\ [][NextQueue]_vars

\* ----------------------------------------------------------- the claims
Returned(c, op) == ret[c].done /\ call[c].op = op

InFlight(c, op) == pc[c] # "idle" /\ call[c].op = op

\* C1: for one Writer, whatever the interleaving of concurrent Write and
\* ReadFrom calls, init runs exactly once, in the first call that finds the
\* Writer not closed: one drain task is launched and at most one value is
\* ever sent on the completion channel.
C1_StartedOnce ==
    wrap.kind = "writer" =>
        /\ wrap.inits <= 1
        /\ sent <= 1
        /\ wrap.started <=> wrap.inits = 1
        /\ wrap.started <=> drain # "none"
        /\ (\E c \in Callers : call[c].op \in {"write", "readfrom"} /\ call[c].live)
              => wrap.started

\* C1, its case: a Write and a ReadFrom in flight together on a started
\* Writer whose drain task has delivered its value.
C1_Witness ==
    /\ wrap.kind = "writer"
    /\ sent = 1
    /\ \E c, d \in Callers :
          /\ InFlight(c, "write") /\ call[c].live
          /\ InFlight(d, "readfrom") /\ call[d].live

\* C2: when Close is the first operation on a Reader or Writer it returns nil
\* and nothing underneath is touched, then or later: the unit is not read,
\* written or closed, the derived scope is not cancelled, no drain task is
\* started, and every later Read, Write or ReadFrom returns ErrClosed with 0
\* bytes, at once.
C2_CloseFirstIsNoOp ==
    (wrap.kind \in {"reader", "writer"} /\ firstOp = "close") =>
        /\ ~unit.reads /\ ~unit.writes /\ unit.closes = 0
        /\ ~wrap.cancelled
        /\ ~wrap.started /\ wrap.inits = 0 /\ drain = "none" /\ sent = 0
        /\ "cmd" \notin executed
        /\ \A c \in Callers :
              /\ pc[c] = "idle"
              /\ Returned(c, "close") => ret[c].err = Nil
              /\ (ret[c].done /\ call[c].op \in {"read", "write", "readfrom"})
                    => (ret[c].err = ErrClosed /\ ret[c].n = 0)

\* C2, its case: a Writer closed before any use, and a later Write that has
\* returned.
C2_Witness ==
    /\ wrap.kind = "writer"
    /\ firstOp = "close"
    /\ \E c \in Callers : Returned(c, "write")

\* C3: once a Close has returned on a Reader or Writer, every Read or Write
\* called afterwards returns ErrClosed with 0 bytes and every Close called
\* afterwards returns nil.
C3_AfterClose ==
    wrap.kind \in {"reader", "writer"} =>
        \A c \in Callers :
            call[c].after =>
                /\ pc[c] = "idle"
                /\ (ret[c].done /\ call[c].op \in {"read", "write"})
                      => (ret[c].err = ErrClosed /\ ret[c].n = 0)
                /\ Returned(c, "close") => ret[c].err = Nil

\* C3, its case: a Reader that was read, then closed, then read again.
C3_Witness ==
    /\ wrap.kind = "reader"
    /\ wrap.started
    /\ unit.reads
    /\ \E c \in Callers : call[c].after /\ Returned(c, "read")

\* C4: a Close that finds a started Writer not yet closed closes the unit's
\* input side, then receives the drain task's value from the completion
\* channel, and returns that value.
C4_CloseReturnsDrainResult ==
    wrap.kind = "writer" =>
        \A c \in Callers :
            (Returned(c, "close") /\ call[c].live) =>
                /\ unit.writable => unit.closes >= 1
                /\ ret[c].drained
                /\ ret[c].err = drainVal

\* C10 as claimed: from construction to the first Read or Write on the
\* wrapper, the unit is not read, written or closed, no drain task runs, and
\* no command has been executed on the machine.
C10_NothingBeforeFirstUse ==
    (wrap.kind # "none" /\ ~used) =>
        /\ ~unit.reads /\ ~unit.writes /\ unit.closes = 0
        /\ drain = "none"
        /\ executed = {}

\* C10, amended: construction performs no Read, Write or Close on the unit
\* and starts no drain task; until the first Read, Write or ReadFrom on the
\* wrapper the unit is not read or written, the wrapper's command has not
\* started and no drain task runs, and the unit is closed by nothing but a
\* Close called on a Stream.  The only commands construction can execute
\* are the probes of a Router that had not probed its core.
C10_NoWorkBeforeFirstUse ==
    (wrap.kind # "none" /\ ~used) =>
        /\ ~unit.reads /\ ~unit.writes
        /\ drain = "none" /\ wrap.inits = 0 /\ ~wrap.started
        /\ "cmd" \notin executed
        /\ ~wrap.cancelled
        /\ unit.closes > 0 => (wrap.kind = "stream" /\ firstOp = "close")
        /\ "probe" \in executed => (mach.kind = "sh" /\ ~mach.coreOS)

\* C10, its case: a wrapper built over a Router whose probes ran at
\* construction, and not used yet.
C10_Witness ==
    /\ wrap.kind # "none"
    /\ firstOp = "none"
    /\ "probe" \in executed

CopyDone == cp.phase = "done"

\* Edge i's task has run its deferred close of a writer that is an io.Closer.
ClosedByEdge(i) == cp.task[i] = "done" /\ (i + 1) \in cp.closer

\* C5 as claimed: a task that has finished has closed its writer when the
\* writer is closable, after a copy that succeeded as after one that failed,
\* and a writer is closed only once its edge's reader is at the end of its
\* stream (the reader returned EOF, or its own error).
C5_CloseOnlyAfterReaderEnd ==
    cp.phase # "idle" =>
        \A i \in Edges(cp.M) :
            /\ ClosedByEdge(i) => cp.closes[i + 1] >= 1
            /\ ClosedByEdge(i) => (cp.eos[i] \/ ReadCause(i) \in cp.err[i])

\* C5, amended: a task that has finished has closed its writer when the
\* writer is closable, after a copy that succeeded as after one that failed,
\* and a writer is closed only once its edge's copy has ended: the reader is
\* at the end of its stream, or the copy has failed, on a Read or on a Write.
C5_CloseOnlyAfterCopyEnd ==
    cp.phase # "idle" =>
        \A i \in Edges(cp.M) :
            /\ ClosedByEdge(i) => cp.closes[i + 1] >= 1
            /\ cp.task[i] = "done" => (cp.eos[i] \/ cp.err[i] # {})
            /\ cp.eos[i] => cp.err[i] = {}
            /\ cp.closes[i + 1] >= 1 => ClosedByEdge(i)

\* C5, its case: a writer closed after a copy that failed on a Write, the
\* reader not at its end.
C5_Witness ==
    /\ cp.phase # "idle"
    /\ \E i \in Edges(cp.M) :
          /\ ClosedByEdge(i)
          /\ cp.closes[i + 1] >= 1
          /\ WriteCause(i) \in cp.err[i]
          /\ ~cp.eos[i]

\* C6: Copy returns only after every edge task has finished and recorded its
\* result; no edge ends because a sibling failed: an edge that has ended
\* without an error of its own has read its reader to the end.
C6_WaitsForAll ==
    /\ CopyDone =>
          \A i \in Edges(cp.M) : cp.task[i] = "done" /\ cp.results[i].set
    /\ cp.phase # "idle" =>
          \A i \in Edges(cp.M) :
              (cp.task[i] # "copy" /\ cp.err[i] = {}) => cp.eos[i]

\* C6, its case: Copy has returned after one edge failed and a sibling
\* copied its reader to the end.
C6_Witness ==
    /\ CopyDone
    /\ \E i, j \in Edges(cp.M) :
          /\ cp.err[i] # {}
          /\ cp.eos[j] /\ cp.n[j] > 0

C8_CloseErrorReported ==
    CopyDone =>
        \A i \in Edges(cp.M) :
            cp.cerr[i] # {} =>
                /\ cp.results[i].err # {}
                /\ cp.failed
                /\ ErrorsIs(cp.failed, cp.results, CloseCause(i))

\* Every closable writer from edge i on has been closed.
ClosedFrom(i) ==
    \A j \in Edges(cp.M) : (j >= i /\ (j + 1) \in cp.closer) => cp.closes[j + 1] >= 1

InteriorReadFailed(i) ==
    /\ cp.phase # "idle"
    /\ i \in Edges(cp.M)
    /\ i >= 1
    /\ ReadCause(i) \in cp.err[i]

C11_ReadFromClosesAndWaits ==
    wrap.kind = "writer" =>
        \A c \in Callers :
            /\ (pc[c] \in {"wRfWait", "wRfMark"} /\ unit.writable) => unit.closes >= 1
            /\ (Returned(c, "readfrom") /\ call[c].live) =>
                  /\ ret[c].drained
                  /\ wrap.closed
                  /\ unit.writable => unit.closes >= 1
                  /\ ret[c].n > 0 => unit.writes
                  /\ ret[c].err \notin {ErrSrc, ErrWrite, ErrReadOnly, ErrCloseIn}
                        => ret[c].err = drainVal
            /\ call[c].afterRf =>
                  /\ pc[c] = "idle"
                  /\ Returned(c, "close") => ret[c].err = Nil
                  /\ (ret[c].done /\ call[c].op \in {"write", "readfrom"})
                        => (ret[c].err = ErrClosed /\ ret[c].n = 0)

\* C11, its case: a ReadFrom has copied its source and returned the drain's
\* outcome, the input side was closed once, and a Close called afterwards
\* has returned.
C11_Witness ==
    /\ wrap.kind = "writer"
    /\ unit.writable
    /\ unit.closes = 1
    /\ \E c, d \in Callers :
          /\ call[c].op = "readfrom" /\ call[c].live
          /\ call[d].afterRf /\ Returned(d, "close")

\* C12: a Close that finds a started Reader open cancels the derived scope
\* and closes the unit when the unit is closable, and it waits for nothing:
\* from the moment it has left the mutex it can return, whatever Read is
\* pending on the unit and whether or not the command has ended.
C12_CloseCancelsWithoutWaiting ==
    wrap.kind = "reader" =>
        \A c \in Callers :
            /\ pc[c] = "rCancel" => ENABLED ReaderCloseCancel(c)
            /\ (Returned(c, "close") /\ call[c].live) =>
                  /\ wrap.cancelled
                  /\ unit.closable => unit.closes >= 1
                  /\ ~ret[c].drained

\* C12, its case: a Close of a started Reader has returned while a Read of
\* another caller is still pending on the unit.
C12_Witness ==
    /\ wrap.kind = "reader"
    /\ wrap.cancelled
    /\ \E c, d \in Callers :
          /\ Returned(c, "close") /\ call[c].live
          /\ pc[d] = "rRead"

ShDone(c, op) == sh.phase = "run" /\ sh.g[c].pc = "done" /\ sh.g[c].op = op

\* C13: a strict Router delegates a command whose name is registered to the
\* registered executor, with the whole argument list, and answers a command
\* whose name is not registered with a Buffer whose Read fails with an error
\* that NotFound classifies, and does not pass that command to the core: the
\* core of a strict Router receives nothing but the Router's own probes.
C13_StrictRouting ==
    (sh.phase = "run" /\ ~sh.fallback) =>
        /\ sh.toCore \subseteq OSProbes
        /\ \A a \in sh.toA : a # <<>> /\ a[1] \in sh.routes
        /\ \A c \in Callers :
              (ShDone(c, "Command") /\ sh.g[c].args # <<>>) =>
                  IF sh.g[c].args[1] \in sh.routes
                  THEN sh.g[c].args \in sh.toA /\ sh.g[c].val = NilErr
                  ELSE /\ NotFound(sh.g[c].val)
                       /\ sh.g[c].args \notin sh.toA
                       /\ sh.g[c].args \notin sh.toCore

\* C13, its case: on a strict Router with executor A registered for "echo",
\* "echo hi" has been delegated to A and "cat f" has been answered.
C13_Witness ==
    /\ sh.phase = "run"
    /\ ~sh.fallback
    /\ sh.routes = {"echo"}
    /\ <<"echo", "hi">> \in sh.toA
    /\ \E c \in Callers : ShDone(c, "Command") /\ sh.g[c].args = <<"cat", "f">>

\* C16: a Router computes its operating system, its architecture and its
\* filesystem at most once each, and every caller of OS, of Arch and of FS
\* gets the same value as every other caller of it.
C16_ComputedOnce ==
    sh.phase = "run" =>
        /\ sh.osCalls <= 1
        /\ sh.fsCalls <= 1
        /\ \A c, d \in Callers :
              \A op \in {"OS", "Arch", "FS"} :
                  (ShDone(c, op) /\ ShDone(d, op)) => sh.g[c].val = sh.g[d].val

ProbeDone == pr.phase = "run" /\ pr.pc = "done"

\* C14: probeRead returns what the first layer gave that did not answer
\* not-found, success or failure, unchanged and after one Read on that layer:
\* every layer above it was read once and answered not-found, and nothing
\* below it was tried.  It descends only on not-found; over two strict
\* Routers that do not know the command and a base that answers it, it
\* descends two layers and succeeds.
C14_ProbeStopsAtFirstAnswer ==
    ProbeDone =>
        /\ pr.err = ReadAt(pr, pr.layer)
        /\ pr.err \in {NilErr, ExitError} \/ pr.layer = 0
        /\ \A l \in Layers(pr.K) : l > pr.layer => ReadAt(pr, l) = ErrNotFound
        /\ pr.descents = pr.K - pr.layer
        /\ pr.attempts = pr.descents + 1

\* C14, its case: two strict Routers that do not know the command over a base
\* that answers it; the probe has descended two layers and succeeded.
C14_Witness ==
    /\ ProbeDone
    /\ pr.K = 2
    /\ \A l \in Layers(pr.K) : ~pr.reg[l] /\ ~pr.fallback[l]
    /\ pr.descents = 2
    /\ pr.layer = 0
    /\ pr.err = NilErr

ProbeBounded ==
    pr.phase = "run" =>
        /\ pr.attempts <= pr.K + 1
        /\ pr.layer = pr.K - pr.descents
        /\ pr.layer >= 0
        /\ pr.attempts \in {pr.descents, pr.descents + 1}
        /\ (ProbeDone /\ \A l \in 0..pr.K : ReadAt(pr, l) = ErrNotFound)
              => (pr.err = ErrNotFound /\ pr.layer = 0 /\ pr.attempts = pr.K + 1)

\* C15: every probe terminates: over K nested Routers it makes at most K+1
\* attempts, each retry one layer further in than the attempt before, and when
\* the innermost executor answers not-found too, it returns that.
C15_ProbeTerminates == []ProbeBounded /\ <>ProbeDone

\* C15, its case: every layer answered not-found; the probe has made K+1
\* attempts over two Routers and returned not-found from the base.
C15_Witness ==
    /\ ProbeDone
    /\ pr.K = 2
    /\ pr.attempts = 3
    /\ pr.layer = 0
    /\ pr.err = ErrNotFound

\* The bytes counted by the edges of 0..k whose copy ended without error.
RECURSIVE SumCopied(_)
SumCopied(k) ==
    IF k < 0 THEN 0
    ELSE (IF cp.err[k] = {} THEN cp.n[k] ELSE 0) + SumCopied(k - 1)

\* C17 as claimed: the total Copy returns is the sum of the bytes of the
\* edges whose copy ended without error, and with no interior stage and a
\* source that does not fail it is the length of the source, all of it is in
\* the sink, and the error is nil.
C17_TotalNoStage ==
    CopyDone =>
        /\ cp.total = SumCopied(cp.M)
        /\ (cp.M = 0 /\ ReadCause(0) \notin cp.err[0]) =>
              /\ cp.total = cp.len
              /\ cp.buf[1] = SrcData(cp.len)
              /\ ~cp.failed

\* C17, amended: the total Copy returns is the sum of the bytes of the edges
\* whose copy ended without error, and with no interior stage, a source that
\* does not fail and a sink whose Writes do not fail, it is the length of the
\* source, all of it is in the sink, and the error is nil.
C17_TotalIsSumOfCopied ==
    CopyDone =>
        /\ cp.total = SumCopied(cp.M)
        /\ (cp.M = 0 /\ cp.err[0] = {}) =>
              /\ cp.total = cp.len
              /\ cp.buf[1] = SrcData(cp.len)
              /\ ~cp.failed

\* C17, its case: Copy without interior stage has returned after it copied a
\* source that is not empty.
C17_Witness ==
    /\ CopyDone
    /\ cp.M = 0
    /\ cp.err[0] = {}
    /\ cp.len > 0
    /\ cp.total = cp.len

NoFailure == \A i \in Edges(cp.M) : cp.err[i] = {} /\ cp.cerr[i] = {}

\* The sink holds the source's bytes in upper case.
SinkIsUpper ==
    /\ Len(cp.buf[cp.M + 1]) = cp.len
    /\ \A k \in 1..cp.len :
          cp.buf[cp.M + 1][k] = IF k % 2 = 1 THEN "H" ELSE " "

\* C18 as claimed: a source copied through one interior stage that runs tr,
\* a command whose output ends when its input is closed, leaves its bytes in upper case in the sink, with no error, and the count
\* returned is the length of the source (11 for "hello world").
C18_CountIsSourceLength ==
    (CopyDone /\ cp.M = 1 /\ cp.xf = "upper" /\ 1 \in cp.closer /\ NoFailure) =>
        /\ SinkIsUpper
        /\ ~cp.failed
        /\ cp.total = cp.len

\* C18, amended: a source copied through one interior stage that runs tr,
\* a command whose output ends when its input is closed, leaves its bytes in upper case in the sink, with no error, and the count
\* returned is the bytes of both edges, twice the length of the source (22
\* for "hello world").
C18_CountIsBothEdges ==
    (CopyDone /\ cp.M = 1 /\ cp.xf = "upper" /\ 1 \in cp.closer /\ NoFailure) =>
        /\ SinkIsUpper
        /\ ~cp.failed
        /\ cp.total = 2 * cp.len

\* C18, its case: Copy through one stage that runs tr has returned without
\* failure for a source that is not empty.
C18_Witness ==
    /\ CopyDone
    /\ cp.M = 1
    /\ cp.xf = "upper"
    /\ 1 \in cp.closer
    /\ NoFailure
    /\ cp.len > 0
    /\ Len(cp.buf[2]) > 0
    /\ cp.buf[2][1] = "H"

\* C19 as claimed: every Write on a Writer over a unit that cannot be written
\* returns ErrReadOnly with 0 bytes.
C19_EveryWriteReadOnly ==
    (wrap.kind = "writer" /\ ~unit.writable) =>
        \A c \in Callers :
            Returned(c, "write") => (ret[c].err = ErrReadOnly /\ ret[c].n = 0)

\* C19, amended: a Writer over a unit that cannot be written never writes to
\* the unit, and every Write on it returns 0 bytes: with ErrReadOnly, from the
\* first Write on, as long as the Writer is not closed, and with ErrClosed
\* once it is.
C19_WritesFailReadOnly ==
    (wrap.kind = "writer" /\ ~unit.writable) =>
        /\ ~unit.writes
        /\ unit.closes = 0
        /\ \A c \in Callers :
              Returned(c, "write") =>
                  /\ ret[c].n = 0
                  /\ ret[c].err = IF call[c].live THEN ErrReadOnly ELSE ErrClosed

\* C19, its case: two Writes have returned on an open Writer over a unit that
\* cannot be written.
C19_Witness ==
    /\ wrap.kind = "writer"
    /\ ~unit.writable
    /\ ~wrap.closed
    /\ \E c, d \in Callers :
          /\ c # d
          /\ Returned(c, "write") /\ call[c].live
          /\ Returned(d, "write") /\ call[d].live

AfterClose(c, op) == call[c].after /\ Returned(c, op)

\* C20 as claimed: once a Close of a Stream has returned, every Read, Write
\* and ReadFrom called afterwards returns ErrClosed with 0 bytes.
C20_StreamClosedInvariant ==
    wrap.kind = "stream" =>
        \A c \in Callers :
            (call[c].after /\ ret[c].done /\ call[c].op \in {"read", "write", "readfrom"})
                => (ret[c].err = ErrClosed /\ ret[c].n = 0)

\* C20, amended: a Stream keeps no closed and no started flag.  Its Close
\* closes the unit's input side and nothing more, each time it is called; a
\* Read called after a Close still reads the unit, and a Write or ReadFrom
\* called after a Close is passed to the unit and returns what the unit
\* returns: no operation of a Stream returns ErrClosed of its own.
C20_StreamKeepsNoClosedFlag ==
    wrap.kind = "stream" =>
        /\ ~wrap.closed /\ ~wrap.started
        /\ \A c \in Callers :
              /\ ret[c].done => ret[c].err # ErrClosed
              /\ AfterClose(c, "read") =>
                    (unit.reads /\ <<ret[c].n, ret[c].err>> \in UnitReadResults)
              /\ AfterClose(c, "write") =>
                    (ret[c].err \in UnitWriteResults /\ (unit.writable => unit.writes))
              /\ (AfterClose(c, "close") /\ unit.writable) => unit.closes >= 2

\* C20, its case: a Read called after a Close of the Stream had returned has
\* read bytes from the unit.
C20_Witness ==
    /\ wrap.kind = "stream"
    /\ unit.closes >= 1
    /\ \E c \in Callers : AfterClose(c, "read") /\ ret[c].n = 1 /\ ret[c].err = Nil

IoCopied(c) == Returned(c, "readfrom") \/ Returned(c, "writeto")

RouterOf(m) == rtr.shs[ShOf(m)]

\* C22: package-level Handle on a machine that is no Router makes a Router
\* over that machine with fallback enabled and the handler registered;
\* Handle on a Router registers the handler on that same Router; a Router
\* made by Handle keeps fallback enabled, dispatches a handled name to its
\* handler and delegates every other name to the original machine.
C22_HandleGivesFallbackRouter ==
    rtr.phase = "run" =>
        /\ \A i \in 1..Len(rtr.shs) :
              rtr.shs[i].by = "Handle" =>
                  (rtr.shs[i].fallback /\ ~IsSh(rtr.shs[i].m))
        /\ rtr.last.op = "Handle" =>
              /\ IsSh(rtr.m)
              /\ RouterOf(rtr.m).routes[rtr.last.name] = rtr.last.h
              /\ IF IsSh(rtr.last.m)
                 THEN rtr.m = rtr.last.m
                 ELSE /\ rtr.m = 10 + Len(rtr.shs)
                      /\ RouterOf(rtr.m).m = rtr.last.m
                      /\ RouterOf(rtr.m).fallback
        /\ (rtr.last.op = "Command" /\ IsSh(rtr.last.m)
               /\ RouterOf(rtr.last.m).by = "Handle") =>
              LET s == RouterOf(rtr.last.m)
                  n == rtr.disp.name
              IN  /\ rtr.disp.err = NilErr
                  /\ rtr.disp.to = IF n \in Names /\ s.routes[n] # 0
                                   THEN s.routes[n] ELSE s.m

\* C22, its case: Handle was applied to the original machine and again to
\* its result; the one Router has both handlers, and a name that is not
\* handled was delegated to the original machine.
C22_Witness ==
    /\ rtr.phase = "run"
    /\ rtr.last.op = "Command"
    /\ rtr.m = 11
    /\ Len(rtr.shs) = 1
    /\ rtr.shs[1].by = "Handle"
    /\ rtr.shs[1].routes["echo"] \in Handlers
    /\ rtr.shs[1].routes["cat"] \in Handlers
    /\ rtr.disp.name = "tr"
    /\ rtr.disp.to = Original

Registered == rtr'.last.op \in {"Handle", "ShHandle"} /\ rtr'.regs = rtr.regs + 1

\* C23: a registration of executor h for name n on a Router sets the route of
\* n to h, whatever it was, and changes no other route of that Router and no
\* other Router; and a dispatch of n on a Router goes where its route for n
\* goes, the route being the executor of the most recent registration.
C23_LastRegistrationWins ==
    /\ []((rtr.phase = "run" /\ rtr.last.op = "Command" /\ IsSh(rtr.last.m)
                /\ rtr.disp.name \in Names
                /\ RouterOf(rtr.last.m).routes[rtr.disp.name] \in Handlers \cup {Original})
            => rtr.disp.to = RouterOf(rtr.last.m).routes[rtr.disp.name])
    /\ [][Registered =>
            LET i == ShOf(rtr'.m)
                n == rtr'.last.name
            IN  /\ rtr'.shs[i].routes[n] = rtr'.last.h
                /\ \A k \in Names \ {n} :
                      rtr'.shs[i].routes[k] =
                          IF i <= Len(rtr.shs) THEN rtr.shs[i].routes[k] ELSE 0
                /\ \A j \in 1..Len(rtr.shs) : j # i => rtr'.shs[j] = rtr.shs[j]]_vars

\* C23, its case: a Router with one route, for "echo", after three calls of
\* Shell and Handle, so that "echo" was registered at least twice; a dispatch
\* of "echo" went to the executor registered last.
C23_Witness ==
    /\ rtr.phase = "run"
    /\ rtr.last.op = "Command"
    /\ Len(rtr.shs) = 1
    /\ rtr.regs = 3
    /\ rtr.shs[1].routes["cat"] = 0
    /\ rtr.shs[1].routes["echo"] = 3
    /\ rtr.disp.name = "echo"
    /\ rtr.disp.to = 3

RECURSIVE Depth(_, _)
\* The Routers between m and the machine under all of them.
Depth(shs, m) == IF IsSh(m) THEN 1 + Depth(shs, shs[ShOf(m)].m) ELSE 0

\* C24: Unshell of a Router is the Router's core, one layer down and no
\* further, whatever the Router's routes are; Unshell of a machine that is no
\* Unsheller is that machine.
C24_UnshellOneLayer ==
    (rtr.phase = "run" /\ rtr.last.op = "Unshell") =>
        IF IsSh(rtr.last.m)
        THEN /\ rtr.m = RouterOf(rtr.last.m).m
             /\ Depth(rtr.shs, rtr.m) = Depth(rtr.shs, rtr.last.m) - 1
        ELSE rtr.m = rtr.last.m

\* C24, its case: Unshell of a Router that wraps a Router and has a route of
\* its own has returned the inner Router.
C24_Witness ==
    /\ rtr.phase = "run"
    /\ rtr.last.op = "Unshell"
    /\ IsSh(rtr.last.m)
    /\ IsSh(rtr.m)
    /\ RouterOf(rtr.last.m).routes["echo"] # 0

OsDone == osd.phase = "run" /\ osd.pc = "done"

\* C25: when the Router given to OS or Arch has a handler registered for
\* "uname", the call reports what that handler's uname prints, and the
\* machine under the Router is not asked.
C25_HandlerDeterminesOS ==
    (OsDone /\ osd.K >= 1 /\ osd.reg[osd.K]) =>
        /\ osd.val = IF osd.what = "OS" THEN OSName(HandlerOut("OS"))
                     ELSE mapArchitecture(HandlerOut("Arch"))
        /\ 0 \notin osd.asked

NfDone == nfd.phase = "run" /\ nfd.pc = "done"

\* The place of the first command Error in the chain, 0 when there is none.
FirstCmd(chain) ==
    IF \E i \in 1..Len(chain) : chain[i].cmd
    THEN CHOOSE i \in 1..Len(chain) :
            chain[i].cmd /\ \A j \in 1..(i - 1) : ~chain[j].cmd
    ELSE 0

\* C26: NotFound(err) is true exactly when err's chain holds a command Error
\* and the first one has a cause (it is not the last of the chain) and code
\* 0; so it is false for nil, for a chain without a command Error, and for a
\* first command Error with a non-zero code or without a cause.  It is true
\* of a strict Router's error for a name that is not registered, and false of
\* a registered handler's plain failure, however the two are wrapped.
C26_NotFoundExactly ==
    NfDone =>
        LET i == FirstCmd(nfd.chain)
        IN  /\ nfd.res = (i # 0 /\ i < Len(nfd.chain) /\ nfd.chain[i].code = 0)
            /\ nfd.from = "router" => nfd.res
            /\ nfd.from = "handler" => ~nfd.res

\* C26, its case: NotFound has answered false for a chain whose first command
\* Error has a non-zero code and wraps a command Error that, alone, would be
\* not found.
C26_Witness ==
    /\ NfDone
    /\ Len(nfd.chain) = 3
    /\ nfd.chain[1] = CmdErr(1)
    /\ nfd.chain[2] = CmdErr(0)
    /\ ~nfd.res

MockAllDone ==
    /\ mck.phase = "run"
    /\ \A k \in Cmds : \A r \in Roles : mck.task[k][r].pc = "done"

\* C27: whatever the interleaving of the Read that meets the end of a mock
\* command's output with the Close of its input, recording does not index
\* outside Calls and does not overwrite another command's record, and once
\* both have returned the command is in Calls exactly once, with all the
\* input written to it.
C27_CallTrackingCorrect ==
    /\ mck.phase # "panic"
    /\ mck.phase = "run" => mck.lost = {}
    /\ MockAllDone =>
          \A k \in Cmds :
              /\ Cardinality({i \in 1..Len(mck.Calls) : mck.Calls[i].cmd = k}) = 1
              /\ \A i \in 1..Len(mck.Calls) :
                    mck.Calls[i].cmd = k => mck.Calls[i].got = mck.cmd[k].input

\* C28: Env returns the value the context's map holds for the key whenever
\* the key is in that map, an empty value included, and sends no command to
\* the machine; when the key is not in the context it queries the machine.
C28_EnvContextFirst ==
    (env.phase = "run" /\ env.last.op = "Env") =>
        LET held == Envs(env, env.last.ctx)[env.last.key]
        IN  IF held # Absent
            THEN env.last.val = held /\ env.last.cmds = <<>>
            ELSE /\ env.last.cmds # <<>>
                 /\ env.last.val = IF env.m.vars[env.last.key] = Absent THEN ""
                                   ELSE env.m.vars[env.last.key]

\* C28, its case: the context holds the key with one value and the machine
\* has it with another; Env has returned the context's value and sent
\* nothing to the machine.
C28_Witness ==
    /\ env.phase = "run"
    /\ env.last.op = "Env"
    /\ env.last.key = "A"
    /\ env.m.vars["A"] = "9"
    /\ Envs(env, env.last.ctx)["A"] = "1"
    /\ env.last.val = "1"
    /\ env.last.cmds = <<>>

\* C29: the context WithEnv returns holds the new value for every key of the
\* new map and the parent's entry for every other key, and the parent's
\* environment is what it was before the call; the context WithoutEnv
\* returns has no environment entries.
C29_WithEnvMergesIntoCopy ==
    env.phase = "run" =>
        /\ env.last.op = "WithEnv" =>
              /\ \A k \in Keys :
                    Envs(env, Len(env.ctx))[k] =
                        IF env.last.arg[k] # Absent THEN env.last.arg[k]
                        ELSE env.last.before[k]
              /\ Envs(env, env.last.ctx) = env.last.before
        /\ env.last.op = "WithoutEnv" =>
              /\ Envs(env, Len(env.ctx)) = NilMap
              /\ Envs(env, env.last.ctx) = env.last.before

\* C29, its case: {A:1} was merged into the background context, {A:2, B:3}
\* into the result, and WithoutEnv applied to that: the second context reads
\* A=1, the third A=2 and B=3, the fourth nothing.
C29_Witness ==
    /\ env.phase = "run"
    /\ Len(env.ctx) = 4
    /\ env.last.op = "WithoutEnv"
    /\ env.last.ctx = 3
    /\ Envs(env, 2) = [NilMap EXCEPT !["A"] = "1"]
    /\ Envs(env, 3) = [NilMap EXCEPT !["A"] = "2", !["B"] = "3"]
    /\ Envs(env, 4) = NilMap

\* The lines a writer has received for command i.
LinesOf(w, i) == {j \in 1..Len(trc.out[w]) : trc.out[w][j].unit = i}

Traced(i) == \E w \in Sinks : LinesOf(w, i) # {}

\* C30, as stated: every command whose first read or write has happened has
\* a line in what the Trace writer of that moment received.
C30_EveryCommandTraced ==
    trc.phase = "run" =>
        \A i \in 1..Len(trc.units) : trc.units[i].pos = "started" => Traced(i)

\* C30, amended: a command run through Exec, Read or Do whose rendering is
\* not empty has, before its first read, exactly one line, written to the
\* writer Trace held when trace ran and to no other: its String() without
\* trailing newlines, or its %v rendering when it has no String method.  A
\* command whose rendering is empty, and one run through m.Command or
\* NewReader, has no line.
C30_HelpersTraceBeforeIO ==
    /\ [](trc.phase = "run" =>
            \A i \in 1..Len(trc.units) :
                LET u == trc.units[i]
                IN  IF u.via \in Helpers /\ u.pos # "created" /\ TraceLine(u.kind) # <<>>
                    THEN /\ Cardinality(LinesOf(u.at, i)) = 1
                         /\ \A j \in LinesOf(u.at, i) :
                               trc.out[u.at][j].text = TraceLine(u.kind)
                         /\ \A w \in Sinks \ {u.at} : LinesOf(w, i) = {}
                    ELSE ~Traced(i))
    /\ [][\A i \in 1..Len(trc.units) :
             (trc.phase = "run" /\ trc.units[i].pos # "started"
                /\ trc'.units[i].pos = "started" /\ trc.units[i].via \in Helpers)
             => trc.units[i].pos = "traced"]_vars

\* C30, its case: Trace was set to Stdout, a command run through Read was
\* traced there and then read, and a command made by NewReader was read
\* with no line written for it.
C30_Witness ==
    /\ trc.phase = "run"
    /\ Len(trc.units) = 2
    /\ trc.units[1].via = "Read"
    /\ trc.units[1].pos = "started"
    /\ trc.units[1].at = "Stdout"
    /\ trc.units[1].kind = [stringer |-> TRUE, str |-> <<"e", NL>>]
    /\ trc.out["Stdout"] = <<[unit |-> 1, text |-> <<"e", NL>>]>>
    /\ trc.units[2].via = "NewReader"
    /\ trc.units[2].pos = "started"
    /\ ~Traced(2)

\* The block the text is to show for edge i: the reader's label, a newline
\* and a tab, then <success>, or the failure with each of its lines indented.
ExpectedBlock(i) ==
    LET r     == cer.results[i]
        label == IF i \in cer.str THEN <<Tok("String", i)>>
                 ELSE <<Tok("<", 0), Tok("%T", i), Tok(">", 0)>>
        copyF == {c \in r.err : c[1] \in {"read", "write"}}
        body  == IF r.err = {} THEN <<TSuccess>>
                 ELSE IF copyF = {} THEN <<Tok("close", i)>>
                 ELSE IF CloseCause(i) \notin r.err
                      THEN <<Tok((CHOOSE c \in copyF : TRUE)[1], i)>>
                      ELSE <<Tok((CHOOSE c \in copyF : TRUE)[1], i), TNL, TTAB,
                             Tok("close", i)>>
    IN  label \o <<TNL, TTAB>> \o body

\* The position in the text at which the block of edge i starts.
RECURSIVE BlockStart(_)
BlockStart(i) == IF i = 0 THEN 1 ELSE BlockStart(i - 1) + Len(ExpectedBlock(i - 1)) + 2

\* C31: the text of the error Copy returned has one block per edge, in edge
\* order whatever the order the tasks ended in, with a blank line between
\* blocks; each block is the reader's label (its String(), else its type in
\* angle brackets), then an indented <success> or the indented failure text.
C31_OneBlockPerEdgeInOrder ==
    (cer.phase = "run" /\ cer.pc = "rendered") =>
        /\ Len(cer.text) = BlockStart(cer.M) + Len(ExpectedBlock(cer.M)) - 1
        /\ \A i \in Edges(cer.M) :
              /\ SubSeq(cer.text, BlockStart(i), BlockStart(i) + Len(ExpectedBlock(i)) - 1)
                    = ExpectedBlock(i)
              /\ i < cer.M =>
                    /\ cer.text[BlockStart(i + 1) - 2] = TNL
                    /\ cer.text[BlockStart(i + 1) - 1] = TNL

\* C31, its case: three edges, the last task ending first and the first
\* last; the first edge failed in its copy and in its close, the second
\* succeeded, the third reader has no String method, and the text is
\* rendered.
C31_Witness ==
    /\ cer.phase = "run"
    /\ cer.pc = "rendered"
    /\ cer.M = 2
    /\ cer.order = <<2, 1, 0>>
    /\ cer.str = {0, 1}
    /\ cer.results[0].err = {ReadCause(0), CloseCause(0)}
    /\ cer.results[1].err = {}
    /\ cer.results[2].err = {ReadCause(2)}

\* The invocations that were given a queued reader.
Served == {k \in 1..Len(mq.log) : mq.log[k].r > 0}

\* Readers are given out in the order Return queued them, none left out.
QueueFifo ==
    /\ \A k \in Served, l \in Served : k < l => mq.log[k].r <= mq.log[l].r
    /\ \A k \in Served : \A r \in 1..mq.log[k].r : \E j \in Served : mq.log[j].r = r

\* A replay gives the output of the reader served last before it.
QueueReplaysLast ==
    \A k \in 1..Len(mq.log) :
        mq.log[k].kind = "replay" =>
            \E j \in Served :
                /\ j < k
                /\ \A l \in Served : l < k => l <= j
                /\ mq.log[j].end = "EOF"
                /\ mq.log[k].out = <<mq.log[j].r>>
                /\ mq.log[k].end = "EOF"

\* A reader that failed is given again to the next invocation.
QueueFailedAgain ==
    \A k \in 1..(Len(mq.log) - 1) :
        mq.log[k].end = "err" => mq.log[k + 1].r = mq.log[k].r

\* After a replay, a Return makes the next invocation read the new reader.
QueueReturnReplaces ==
    \A k \in 1..(Len(mq.log) - 1) :
        (mq.log[k].kind = "replay" /\ mq.log[k + 1].made > mq.log[k].made) =>
            /\ mq.log[k + 1].r = mq.log[k].made + 1
            /\ mq.log[k + 1].out = IF mq.log[k + 1].end = "EOF"
                                   THEN <<mq.log[k + 1].r>> ELSE <<>>

\* C32: for one argument pattern, invocations consume the queued readers in
\* FIFO order; once the last reader has been read to its end its output is
\* replayed on every further invocation; a reader that ended in an error
\* other than EOF is given again on the next invocation; a Return after
\* replay has begun replaces the replayed output.
C32_QueueFifoThenReplay ==
    mq.phase = "run" =>
        /\ QueueFifo
        /\ QueueReplaysLast
        /\ QueueFailedAgain
        /\ QueueReturnReplaces

\* A caller stands at its receive from w.read.
AtReceive(c) == pc[c] \in {"wCloseWait", "wRfWait"}

\* C33: once the drain task has finished, every Close and every ReadFrom
\* that waits for the completion value has one to receive, so it returns:
\* no caller is left at its receive after the one value has been taken.
C33_EveryWaiterGetsCompletion ==
    wrap.kind = "writer" =>
        \A c \in Callers : (AtReceive(c) /\ drain = "done") => Len(readCh) > 0

\* C34: Copy returns in the end, whenever the source ends or an edge fails,
\* every stage ending its output once its input is closed; also when a
\* downstream edge has failed and an upstream edge still writes into a stage
\* whose output nobody reads any more.
C34_CopyReturns == <>(cp.phase = "done")

\* C35: once a Close of a Reader or a Writer has returned, no call stands
\* before a Read or a Write of the execution unit: the wrapper invokes
\* neither afterwards, not even for a call that was in flight when Close
\* began.
C35_NoUnitUseAfterClose ==
    (wrap.kind \in {"reader", "writer"} /\ closeRet) =>
        \A c \in Callers : pc[c] \notin {"rRead", "wWrite"}

\* C36: on a Writer over a unit that cannot be written, where every Write
\* and ReadFrom is rejected, the unit is never read: no drain task is
\* started and the command does not start.
C36_RejectedWriteStartsNothing ==
    (wrap.kind = "writer" /\ ~unit.writable) =>
        /\ ~unit.reads
        /\ drain = "none"
        /\ "cmd" \notin executed

\* A Stream or a Writer has been used as the writer of one edge of a Copy:
\* io.Copy(w, r) has run as w.ReadFrom(r), or as r.WriteTo(w) for a source
\* that writes itself out, and the task's deferred w.Close() was called
\* after that had returned, and has returned.
UsedAsEdgeWriter ==
    /\ wrap.kind \in {"stream", "writer"}
    /\ unit.writable
    /\ calls = 2
    /\ firstOp \in {"readfrom", "writeto"}
    /\ \A c \in Callers : pc[c] = "idle"
    /\ \E c \in Callers :
          Returned(c, "close") /\ (firstOp = "readfrom" => call[c].afterRf)

\* C37: the close of the input of a closable endpoint's unit is invoked
\* exactly once during a Copy, also for a Stream or a Writer whose ReadFrom
\* has closed the input at the end of the copy.
C37_InputClosedOnce == UsedAsEdgeWriter => unit.closes = 1


\* The commands the Router has handed to the core by Sh.command: the
\* arguments of the finished Command calls that were routed to the core.
DispatchedToCore ==
    {sh.g[c].args : c \in {d \in Callers :
        /\ sh.g[d].pc = "done"
        /\ sh.g[d].op = "Command"
        /\ command(sh.fallback, sh.routes, sh.g[d].args).to = "core"}}

\* C38 as stated: dispatching through a Router issues no other command to
\* the core: the core receives exactly the dispatches routed to it, and no
\* operating-system or architecture probe.
C38_OnlySelectedExecutor ==
    sh.phase = "run" => sh.toCore = DispatchedToCore

\* C38: besides the dispatches routed to it, the core receives only the
\* probes of the Router's one-time init, which the first Command, OS or Arch
\* call runs on a core that does not report its OS and architecture itself;
\* init runs its probes at most once.
C38_OnlyProbesBesidesDispatch ==
    sh.phase = "run" =>
        /\ sh.toCore = DispatchedToCore \cup
                          (IF sh.once /\ ~sh.rich THEN OSProbes ELSE {})
        /\ sh.osCalls <= 1
        /\ sh.once <=> sh.osCalls = 1

\* A Command routed to a registered executor has returned, and the core,
\* which was selected for nothing, has received the probes.
C38_Witness ==
    /\ sh.phase = "run"
    /\ ~sh.rich
    /\ sh.toA # {}
    /\ DispatchedToCore = {}
    /\ sh.toCore = OSProbes
    /\ \A c \in Callers : sh.g[c].pc = "done" /\ sh.g[c].op = "Command"

\* Two Close calls have been made on the wrapper and both have returned.
ClosedTwice ==
    /\ \A c \in Callers : pc[c] = "idle" /\ Returned(c, "close")
    /\ calls = MaxCalls

\* C39: across any number of sequential or concurrent Close calls on one
\* Reader, the derived scope is cancelled and the unit's Close is invoked at
\* most once; across any number of Close calls on one Writer, the unit's
\* input is closed by Close at most once and Close receives from the
\* completion channel at most once.
C39_CloseActsOnce ==
    /\ wrap.kind = "reader" => wrap.cancels <= 1 /\ unit.closes <= 1
    /\ wrap.kind = "writer" => wrap.closeIns <= 1 /\ wrap.recvs <= 1

\* A started Reader whose unit is an io.Closer, or a started Writer, on which
\* every caller's last call was a Close: the first one cancelled and closed,
\* or closed the input and received the completion, the others did nothing.
C39_Witness ==
    /\ ClosedTwice
    /\ \/ wrap.kind = "reader" /\ wrap.cancels = 1 /\ unit.closes = 1
       \/ wrap.kind = "writer" /\ wrap.closeIns = 1 /\ wrap.recvs = 1

\* The errors of the three steps of writer.ReadFrom.
CopyErrors  == {ErrSrc, ErrWrite, ErrReadOnly}
FirstNonNil(a, b) == IF a # Nil THEN a ELSE b

\* C40: writer.ReadFrom closes the unit's input and waits for the drain task
\* even when copying from the source failed, and it returns the first
\* non-nil of the copy error, the close-input error and the drain error, in
\* this order.  Step by step, for every caller inside ReadFrom: the copy,
\* failed or not, is followed by the Close of the input; the Close leaves an
\* earlier error in place and is followed by the receive; the receive takes
\* the drain's value off the channel and leaves an earlier error in place;
\* and what is returned is the error so selected.
C40_ReadFromFirstError ==
    [][\A c \in Callers :
          /\ (pc[c] = "wRfCopy" /\ pc'[c] # "wRfCopy") =>
                /\ pc'[c] = "wRfClose"
                /\ reg'[c].err \in CopyErrors \cup {Nil}
          /\ (pc[c] = "wRfClose" /\ pc'[c] # "wRfClose") =>
                /\ pc'[c] = "wRfWait"
                /\ unit.writable => unit'.closes = unit.closes + 1
                /\ \E e \in {Nil, ErrCloseIn} :
                      reg'[c].err = FirstNonNil(reg[c].err, e)
          /\ (pc[c] = "wRfWait" /\ pc'[c] # "wRfWait") =>
                /\ pc'[c] = "wRfMark"
                /\ readCh # <<>> /\ readCh' = Tail(readCh)
                /\ reg'[c].err = FirstNonNil(reg[c].err, Head(readCh))
          /\ (pc[c] = "wRfMark" /\ pc'[c] # "wRfMark") =>
                /\ ret'[c].done /\ ret'[c].drained
                /\ ret'[c].err = reg[c].err
                /\ ret'[c].n = reg[c].n]_vars

\* A ReadFrom whose copy failed at the source has returned the copy's error
\* after closing the input and receiving the drain's failure.
C40_Witness ==
    /\ wrap.kind = "writer"
    /\ unit.writable
    /\ unit.closes = 1
    /\ drainVal = ErrExec
    /\ readCh = <<>>
    /\ \E c \in Callers :
          /\ Returned(c, "readfrom") /\ call[c].live
          /\ ret[c].drained
          /\ ret[c].err = ErrSrc
====
